---------------------------- MODULE Spec2Model ----------------------------
(***************************************************************************)
(* A model of aura's storage engine: the encrypted Pager                   *)
(* (crates/aura-store/src/pager.rs), the page layout (page.rs), the        *)
(* AEAD it uses (crates/aura-security/src/symmetric.rs), and the on-disk   *)
(* B-tree (btree/node.rs, btree/manager.rs).                               *)
(*                                                                         *)
(* Scaling.  u32 arithmetic is kept modular, with the width U32_BITS       *)
(* instead of 32; NODE_CAPACITY is the node capacity of btree/node.rs:4,   *)
(* scaled down from 50 so that leaf, internal and root splits all happen   *)
(* within a few inserts.  Keys are strings in the source; the model uses   *)
(* integers, ordered as the strings "user_NNN" are ordered.                *)
(***************************************************************************)
EXTENDS Integers, Sequences, FiniteSets, TLC

(***************************************************************************)
(* Bounds of the model.                                                    *)
(***************************************************************************)
U32_BITS == 6
NODE_CAPACITY == 2
MaxKey == 7
MaxDupKey == 4
MaxDups == 1
MaxCalls == 4
MaxStatements == 3

(***************************************************************************)
(* Program constants.                                                      *)
(***************************************************************************)
PAGE_SIZE == 4096
DATA_SIZE == 3997
KEY_SIZE == 32
NONCE_SIZE == 24
TAG_SIZE == 16
KEY_LEN == 8

ENCRYPTED_PAGE_SIZE == PAGE_SIZE + NONCE_SIZE + TAG_SIZE

U32_MODULUS == 2 ^ U32_BITS
U32_MAX == U32_MODULUS - 1

None == [some |-> FALSE, v |-> 0]
Some(x) == [some |-> TRUE, v |-> x]

Ok(x) == [ok |-> TRUE, val |-> x]
Err(kind, id) == [ok |-> FALSE, err |-> <<kind, id>>]

Min(a, b) == IF a < b THEN a ELSE b
SetMax(S) == CHOOSE x \in S : \A y \in S : y <= x

(***************************************************************************)
(* symmetric.rs: XChaCha20-Poly1305, symbolically.  A ciphertext body is   *)
(* the triple it was sealed from, a tag is the MAC of (key, nonce, body);  *)
(* `bits` is 0 for bytes as produced and 1 once any bit has been flipped.  *)
(* Only encrypt makes bodies and tags of a key: nothing forges them.       *)
(***************************************************************************)
Seal(key, nonce, data) == [k |-> key, n |-> nonce, pt |-> data, bits |-> 0]
Mac(key, nonce, ct) == [k |-> key, n |-> nonce, c |-> ct, bits |-> 0]

\* symmetric.rs:18-34
encrypt(data, key, nonce) ==
    LET ct == Seal(key, nonce, data)
    IN  [nonce |-> nonce, ct |-> ct, tag |-> Mac(key, nonce, ct)]

\* A decrypt that does not verify the tag: the tamper property does not
\* hold of it.
decrypt_unverified(encrypted_data, key) ==
    [ok |-> TRUE, val |-> encrypted_data.ct.pt]

\* symmetric.rs:38-55
decrypt(encrypted_data, key) ==
    IF encrypted_data.tag = Mac(key, encrypted_data.nonce, encrypted_data.ct)
    THEN [ok |-> TRUE, val |-> encrypted_data.ct.pt]
    ELSE [ok |-> FALSE, val |-> encrypted_data.ct.pt]

(***************************************************************************)
(* page.rs: struct Page, #[repr(C)].  Each field sits at the next offset   *)
(* that is a multiple of its alignment; the struct's size is rounded up to *)
(* its alignment (4).  `data` is modelled in two parts: `body`, the bytes  *)
(* data[0 .. DATA_SIZE-2], and `last`, the byte data[DATA_SIZE-1].         *)
(***************************************************************************)
AlignUp(n, a) == ((n + a - 1) \div a) * a

OFF_ID == 0
OFF_PAGE_TYPE == AlignUp(OFF_ID + 4, 1)
OFF_USED_SPACE == AlignUp(OFF_PAGE_TYPE + 1, 2)
OFF_NEXT_PAGE == AlignUp(OFF_USED_SPACE + 2, 4)
OFF_RESERVED == AlignUp(OFF_NEXT_PAGE + 4, 1)
OFF_DATA == AlignUp(OFF_RESERVED + 88, 1)
SIZE_OF_PAGE == AlignUp(OFF_DATA + DATA_SIZE, 4)

EmptyBody == [bytes |-> <<>>, len |-> 0]

PageNew(id) ==
    [id |-> id, page_type |-> 1, used_space |-> 0, next_page |-> 0,
     data |-> [body |-> EmptyBody, last |-> 0]]

(***************************************************************************)
(* pager.rs:82  from_raw_parts(page, PAGE_SIZE): the first PAGE_SIZE bytes *)
(* of the struct.  A byte of `data` is in the image iff its offset is      *)
(* below PAGE_SIZE.                                                        *)
(***************************************************************************)
LastByteInImage == OFF_DATA + (DATA_SIZE - 1) < PAGE_SIZE

PageImage(page) ==
    [id |-> page.id, page_type |-> page.page_type,
     used_space |-> page.used_space, next_page |-> page.next_page,
     body |-> page.data.body,
     tail |-> IF LastByteInImage THEN <<page.data.last>> ELSE <<>>]

(***************************************************************************)
(* pager.rs:122-129  a zeroed Page overwritten by the PAGE_SIZE bytes of   *)
(* the image: what the image does not cover stays zero.                    *)
(***************************************************************************)
PageFromImage(img) ==
    [id |-> img.id, page_type |-> img.page_type,
     used_space |-> img.used_space, next_page |-> img.next_page,
     data |-> [body |-> img.body,
               last |-> IF img.tail = <<>> THEN 0 ELSE img.tail[1]]]

(***************************************************************************)
(* The file: the encrypted records written, by byte offset.  Every write   *)
(* is ENCRYPTED_PAGE_SIZE bytes at a multiple of ENCRYPTED_PAGE_SIZE, so   *)
(* records never overlap.  Bytes below the file's length that were never   *)
(* written read as zeros.  A file whose length is not a multiple of        *)
(* ENCRYPTED_PAGE_SIZE ends in a partial record of `partial` bytes.        *)
(***************************************************************************)
PartialRecord(n) == [partial |-> n]
IsPartial(rec) == "partial" \in DOMAIN rec
RecordLen(rec) == IF IsPartial(rec) THEN rec.partial ELSE ENCRYPTED_PAGE_SIZE

FileLen(f) ==
    IF DOMAIN f = {} THEN 0 ELSE SetMax(DOMAIN f) + RecordLen(f[SetMax(DOMAIN f)])

ZeroRecord ==
    LET ct == [k |-> "zero", n |-> 0, pt |-> PageImage(PageNew(0)), bits |-> 0]
    IN  [nonce |-> 0, ct |-> ct,
         tag |-> [k |-> "zero", n |-> 0, c |-> ct, bits |-> 0]]

ReadAt(f, offset) == IF offset \in DOMAIN f THEN f[offset] ELSE ZeroRecord

WriteAt(f, offset, rec) ==
    [o \in DOMAIN f \cup {offset} |-> IF o = offset THEN rec ELSE f[o]]

(***************************************************************************)
(* pager.rs: struct Pager, as a record                                     *)
(*   [file, total_pages, master_key, index, rng]                           *)
(* rng is the position of OsRng's stream: generate_nonce returns a value   *)
(* not returned before.  An operation returns the pager it leaves behind   *)
(* in field p; `panic` is set when a u32 addition overflowed in a build    *)
(* with overflow checks (without them the sum wraps).                      *)
(***************************************************************************)
PrimaryIndexNew == [map |-> <<>>, dirty |-> FALSE]

\* pager.rs:77, pager.rs:105
PageOffset(id) == id * ENCRYPTED_PAGE_SIZE

\* pager.rs:92-94  self.total_pages = page.id + 1, in u32: the sum that
\* does not fit panics under overflow checks and wraps without them.
U32Add(a, b, checks) ==
    [val |-> (a + b) % U32_MODULUS, panic |-> checks /\ a + b > U32_MAX]

\* pager.rs:76-97
write_page(p, page, checks) ==
    LET offset == PageOffset(page.id)
        encrypted_data == encrypt(PageImage(page), p.master_key, p.rng)
        p1 == [p EXCEPT !.file = WriteAt(p.file, offset, encrypted_data),
                        !.rng = p.rng + 1]
        next == U32Add(page.id, 1, checks)
    IN  IF page.id >= p.total_pages
        THEN IF next.panic
             THEN [ok |-> FALSE, panic |-> TRUE, p |-> p1,
                   err |-> <<"panic", page.id>>]
             ELSE [ok |-> TRUE, panic |-> FALSE,
                   p |-> [p1 EXCEPT !.total_pages = next.val]]
        ELSE [ok |-> TRUE, panic |-> FALSE, p |-> p1]

\* A bound check that lets id = total_pages through: the PageNotFound
\* property does not hold of it.
BeyondEnd_strict(id, total) == id > total

\* pager.rs:101
BeyondEnd(id, total) == id >= total

\* pager.rs:100-132  `io` tells whether the file was read.
read_page(p, id) ==
    IF BeyondEnd(id, p.total_pages)
    THEN Err("PageNotFound", id) @@ [io |-> FALSE]
    ELSE LET offset == PageOffset(id)
         IN  IF offset + ENCRYPTED_PAGE_SIZE > FileLen(p.file)
             THEN Err("Io", id) @@ [io |-> TRUE]
             ELSE LET plaintext == decrypt(ReadAt(p.file, offset), p.master_key)
                  IN  IF ~plaintext.ok
                      THEN Err("Tampered", id) @@ [io |-> TRUE]
                      ELSE IF ENCRYPTED_PAGE_SIZE - NONCE_SIZE - TAG_SIZE # PAGE_SIZE
                           THEN Err("Tampered", id) @@ [io |-> TRUE]
                           ELSE Ok(PageFromImage(plaintext.val)) @@ [io |-> TRUE]

\* An allocator without the reservation of page 0: the property that page
\* 0 is written by sync_index alone does not hold of it.
allocate_page_from_zero(p, checks) ==
    IF U32Add(p.total_pages, 1, checks).panic
    THEN [id |-> p.total_pages, panic |-> TRUE, p |-> p]
    ELSE [id |-> p.total_pages, panic |-> FALSE,
          p |-> [p EXCEPT !.total_pages =
                             U32Add(p.total_pages, 1, checks).val]]

\* pager.rs:135-144
allocate_page(p, checks) ==
    LET id == IF p.total_pages = 0 THEN 1 ELSE p.total_pages
        next == U32Add(id, 1, checks)
    IN  IF next.panic
        THEN [id |-> id, panic |-> TRUE, p |-> p]
        ELSE [id |-> id, panic |-> FALSE,
              p |-> [p EXCEPT !.total_pages = next.val]]

(***************************************************************************)
(* postcard's encoding of a BTreeNode (node.rs:49-55), one token per       *)
(* encoded item: id, the Option tag and value of parent, the variant index *)
(* of node_type, then each Vec as its length followed by its elements.     *)
(* `len` is the length in bytes: an integer is a varint of 7-bit groups, a *)
(* key is a varint length followed by KEY_LEN bytes.                       *)
(***************************************************************************)
VarintLen(n) ==
    IF n < 128 THEN 1
    ELSE IF n < 16384 THEN 2
    ELSE IF n < 2097152 THEN 3
    ELSE IF n < 268435456 THEN 4
    ELSE 5

RECURSIVE SumVarintLen(_)
SumVarintLen(s) ==
    IF s = <<>> THEN 0 ELSE VarintLen(Head(s)) + SumVarintLen(Tail(s))

NodeTypeIndex(t) == IF t = "Internal" THEN 0 ELSE 1
NodeTypeOf(i) == IF i = 0 THEN "Internal" ELSE "Leaf"

\* node.rs:49-51
to_bytes(node) ==
    [bytes |-> <<node.id>>
               \o (IF node.parent.some THEN <<1, node.parent.v>> ELSE <<0>>)
               \o <<NodeTypeIndex(node.node_type)>>
               \o <<Len(node.keys)>> \o node.keys
               \o <<Len(node.children)>> \o node.children,
     len |-> VarintLen(node.id)
             + (IF node.parent.some THEN 1 + VarintLen(node.parent.v) ELSE 1)
             + 1
             + VarintLen(Len(node.keys))
             + Len(node.keys) * (VarintLen(KEY_LEN) + KEY_LEN)
             + VarintLen(Len(node.children))
             + SumVarintLen(node.children)]

\* The last byte of an encoding: the top 7-bit group of its last integer.
LastByteOf(bytes) ==
    LET n == bytes.bytes[Len(bytes.bytes)]
    IN  IF VarintLen(n) = 1 THEN n ELSE n \div (128 ^ (VarintLen(n) - 1))

\* node.rs:53-55  decode the tokens in order; input that ends early is an
\* error, bytes after the value are ignored.
from_bytes(slice) ==
    LET t == slice.bytes
        off == IF t[2] = 0 THEN 2 ELSE 3
        nk == t[off + 2]
        nc == t[off + 3 + nk]
        children == SubSeq(t, off + 4 + nk, off + 3 + nk + nc)
    IN  IF slice.cut \/ t = <<>>
        THEN [ok |-> FALSE]
        ELSE [ok |-> TRUE,
              val |-> [id |-> t[1],
                       parent |-> IF t[2] = 0 THEN None ELSE Some(t[3]),
                       node_type |-> NodeTypeOf(t[off + 1]),
                       keys |-> SubSeq(t, off + 3, off + 2 + nk),
                       children |->
                           IF slice.last_changed /\ nc > 0
                           THEN [children EXCEPT ![nc] = slice.last]
                           ELSE children]]

(***************************************************************************)
(* page.data[..len].copy_from_slice(&bytes) and &page.data[..used_space].  *)
(* The slice read back is cut when used_space is shorter than what was     *)
(* stored; when it reaches the byte data[DATA_SIZE-1], that byte is taken  *)
(* from data.last.                                                         *)
(***************************************************************************)
CopyIntoData(bytes) ==
    [body |-> bytes,
     last |-> IF bytes.len = DATA_SIZE THEN LastByteOf(bytes) ELSE 0]

SliceOfData(data, used_space) ==
    [bytes |-> data.body.bytes,
     cut |-> used_space < data.body.len,
     last |-> data.last,
     last_changed |-> /\ used_space = DATA_SIZE
                      /\ data.body.len = DATA_SIZE
                      /\ data.last # LastByteOf(data.body)]

(***************************************************************************)
(* index.rs: PrimaryIndex.  The map is a function from key to page id;     *)
(* to_bytes is postcard's encoding of the BTreeMap: the number of entries, *)
(* then each key and value in key order.                                   *)
(***************************************************************************)
\* The keys of the index are strings of any length.  LongKey is as long as
\* a page's payload, FitKey is the length with which a one-entry index
\* encodes to exactly DATA_SIZE bytes; every other key has KEY_LEN bytes.
LongKey == MaxKey + 2
FitKey == MaxKey + 3

\* executor.rs:68  String::new(), the empty string.
EmptyText == 0

\* executor.rs:93  the strings uuid::Uuid::new_v4().to_string() can return,
\* each of 36 bytes.
Uuids == {MaxKey + 4, MaxKey + 5}

\* A text with which the document of INSERT INTO users (id, name) VALUES
\* ('user_007', '<text>') encodes to DATA_SIZE + 1 bytes.
OverText == MaxKey + 6

\* Three ids whose documents fit a page each, and with which the index of
\* the three encodes to DATA_SIZE bytes: 1 + 2 * (2 + 1900 + 1) + (2 + 187
\* + 1).
WideKeys == {MaxKey + 7, MaxKey + 8}
TailKey == MaxKey + 9

KeyBytes(key) ==
    IF key = LongKey THEN DATA_SIZE
    ELSE IF key = FitKey THEN DATA_SIZE - 4
    ELSE IF key = OverText THEN DATA_SIZE - 31
    ELSE IF key \in WideKeys THEN 1900
    ELSE IF key = TailKey THEN DATA_SIZE - 2 * 1903 - 4
    ELSE IF key = EmptyText THEN 0
    ELSE IF key \in Uuids THEN 36
    ELSE KEY_LEN

RECURSIVE SumKeyBytes(_)
SumKeyBytes(keys) ==
    IF keys = {} THEN 0
    ELSE LET k == CHOOSE x \in keys : TRUE
         IN  VarintLen(KeyBytes(k)) + KeyBytes(k) + SumKeyBytes(keys \ {k})

RECURSIVE MapTokens(_, _)
MapTokens(map, keys) ==
    IF keys = {} THEN <<>>
    ELSE LET k == CHOOSE x \in keys : \A y \in keys : x <= y
         IN  <<k, map[k]>> \o MapTokens(map, keys \ {k})

\* An insert that keeps the page id a key already has: the set-or-replace
\* property does not hold of it.
index_insert_keep_first(idx, key, page_id) ==
    [map |-> [k \in DOMAIN idx.map \cup {key} |->
                 IF k \in DOMAIN idx.map THEN idx.map[k] ELSE page_id],
     dirty |-> TRUE]

\* index.rs:22-25
index_insert(idx, key, page_id) ==
    [map |-> [k \in DOMAIN idx.map \cup {key} |->
                 IF k = key THEN page_id ELSE idx.map[k]],
     dirty |-> TRUE]

\* index.rs:27-29
index_get(idx, key) ==
    IF key \in DOMAIN idx.map THEN Some(idx.map[key]) ELSE None

\* index.rs:32-35
index_to_bytes(idx) ==
    LET toks == MapTokens(idx.map, DOMAIN idx.map)
    IN  [bytes |-> <<Cardinality(DOMAIN idx.map)>> \o toks,
         len |-> VarintLen(Cardinality(DOMAIN idx.map))
                 + SumKeyBytes(DOMAIN idx.map)
                 + SumVarintLen([i \in 1..Cardinality(DOMAIN idx.map) |->
                                    toks[2 * i]])]

\* index.rs:38-43
index_from_bytes(slice) ==
    LET t == slice.bytes
        n == t[1]
    IN  IF slice.cut \/ t = <<>> \/ Len(t) < 1 + 2 * n
        THEN [ok |-> FALSE]
        ELSE [ok |-> TRUE,
              val |-> [map |-> [k \in {t[2 * i] : i \in 1..n} |->
                                  LET i == CHOOSE j \in 1..n : t[2 * j] = k
                                  IN  IF slice.last_changed /\ i = n
                                      THEN slice.last ELSE t[2 * i + 1]],
                       dirty |-> FALSE]]

\* An index page of kind Data: the sync_index property does not hold of it.
IndexPage_as_data(bytes) ==
    [PageNew(0) EXCEPT !.data = CopyIntoData(bytes),
                       !.used_space = bytes.len % 65536]

\* pager.rs:159-171  page 0, kind Index, holding the encoded index.
IndexPage(bytes) ==
    [PageNew(0) EXCEPT !.page_type = 2,
                       !.data = CopyIntoData(bytes),
                       !.used_space = bytes.len % 65536]

\* pager.rs:173-175  w is what write_page returned.
index_synced(w, page) ==
    IF ~w.ok
    THEN [ok |-> FALSE, panic |-> w.panic, p |-> w.p, page |-> page,
          err |-> w.err]
    ELSE [ok |-> TRUE, panic |-> FALSE, page |-> page,
          p |-> [w.p EXCEPT !.index.dirty = FALSE]]

\* pager.rs:155-175  p1 is the pager once page 0 is made to exist.
sync_bytes(p1, bytes, checks) ==
    IF bytes.len > DATA_SIZE
    THEN [ok |-> FALSE, panic |-> FALSE, p |-> p1,
          page |-> [PageNew(0) EXCEPT !.page_type = 2], err |-> <<"Io", 0>>]
    ELSE index_synced(write_page(p1, IndexPage(bytes), checks), IndexPage(bytes))

\* pager.rs:147-176  `page` is the page it handed to write_page.
sync_index(p, checks) ==
    IF ~p.index.dirty
    THEN [ok |-> TRUE, panic |-> FALSE, p |-> p, page |-> PageNew(0)]
    ELSE sync_bytes(IF p.total_pages = 0 THEN [p EXCEPT !.total_pages = 1] ELSE p,
                    index_to_bytes(p.index), checks)

\* pager.rs:22-73  open an existing file `f`; `rng` is where OsRng's stream
\* stands.  total_pages is the quotient cast to u32.
open(f, key, rng0) ==
    LET total == (FileLen(f) \div ENCRYPTED_PAGE_SIZE) % U32_MODULUS
        pager == [file |-> f, total_pages |-> total, master_key |-> key,
                  index |-> PrimaryIndexNew, rng |-> rng0]
        page == read_page(pager, 0)
    IN  IF total > 0 /\ page.ok /\ page.val.page_type = 2
        THEN LET loaded == index_from_bytes(
                               SliceOfData(page.val.data, page.val.used_space))
             IN  IF loaded.ok THEN [pager EXCEPT !.index = loaded.val]
                 ELSE pager
        ELSE pager

(***************************************************************************)
(* document.rs and executor.rs.  A string is the integer that names it, as *)
(* for the keys of the index: k in 1..MaxKey is "user_00k".  An SQL text   *)
(* is what Parser::parse_sql makes of it: an error, or the sequence of its *)
(* statements.  A statement has a kind; an INSERT has a source, the names  *)
(* of its columns and the expressions of its first row.                    *)
(***************************************************************************)
\* sqlparser::ast::Value, as far as handle_insert tells the literals apart
SingleQuotedString(s) == [t |-> "SingleQuotedString", s |-> s, n |-> 0]
Number(n) == [t |-> "Number", s |-> EmptyText, n |-> n]

\* executor.rs:75-80
DataValueOf(val_expr) ==
    IF val_expr.t = "Number" THEN [variant |-> "Integer", v |-> val_expr.n]
    ELSE IF val_expr.t = "SingleQuotedString"
         THEN [variant |-> "Text", v |-> val_expr.s]
    ELSE IF val_expr.t = "Boolean" THEN [variant |-> "Boolean", v |-> val_expr.n]
    ELSE [variant |-> "Null", v |-> 0]

\* executor.rs:83-87  the columns named id whose value is a Text
IdColumns(columns, row_values) ==
    {i \in 1..Len(columns) :
        columns[i] = "id" /\ DataValueOf(row_values[i]).variant = "Text"}

\* executor.rs:68-90  doc_id when the loop over the columns has ended: the
\* text of the last id column that holds a Text, an empty string if none.
doc_id_of(columns, row_values) ==
    IF IdColumns(columns, row_values) = {} THEN EmptyText
    ELSE row_values[CHOOSE i \in IdColumns(columns, row_values) :
                       \A j \in IdColumns(columns, row_values) : j <= i].s

\* executor.rs:67-100  `uuid` is what Uuid::new_v4() returns if called.
DocumentOf(columns, row_values, uuid) ==
    [id |-> IF doc_id_of(columns, row_values) = EmptyText THEN uuid
            ELSE doc_id_of(columns, row_values),
     version |-> 1,
     data |-> [i \in 1..Len(columns) |->
                  [name |-> columns[i], value |-> DataValueOf(row_values[i])]]]

\* The names of columns and the tokens and byte lengths of their encodings.
NameCode(name) == IF name = "id" THEN 1 ELSE IF name = "name" THEN 2 ELSE 3
NameOf(code) == IF code = 1 THEN "id" ELSE IF code = 2 THEN "name" ELSE "age"
NameBytes(name) == IF name = "id" THEN 2 ELSE IF name = "name" THEN 4 ELSE 3

\* document.rs:7-23  the index of a variant of DataValue
VariantIndex(variant) ==
    IF variant = "Null" THEN 0
    ELSE IF variant = "Boolean" THEN 1
    ELSE IF variant = "Integer" THEN 2
    ELSE 4
VariantOf(i) ==
    IF i = 0 THEN "Null"
    ELSE IF i = 1 THEN "Boolean"
    ELSE IF i = 2 THEN "Integer"
    ELSE "Text"

\* postcard: a bool is one byte, an i64 a zigzag varint, a string a varint
\* length and its bytes.
ValueBytes(value) ==
    IF value.variant = "Null" THEN 0
    ELSE IF value.variant = "Boolean" THEN 1
    ELSE IF value.variant = "Integer" THEN VarintLen(2 * value.v)
    ELSE VarintLen(KeyBytes(value.v)) + KeyBytes(value.v)

RECURSIVE DataTokens(_)
DataTokens(data) ==
    IF data = <<>> THEN <<>>
    ELSE <<NameCode(Head(data).name), VariantIndex(Head(data).value.variant),
           Head(data).value.v>> \o DataTokens(Tail(data))

RECURSIVE DataBytes(_)
DataBytes(data) ==
    IF data = <<>> THEN 0
    ELSE VarintLen(NameBytes(Head(data).name)) + NameBytes(Head(data).name)
         + 1 + ValueBytes(Head(data).value) + DataBytes(Tail(data))

\* document.rs:50-52  id, version, then the map: its length and entries.
doc_to_bytes(doc) ==
    [bytes |-> <<doc.id, doc.version, Len(doc.data)>> \o DataTokens(doc.data),
     len |-> VarintLen(KeyBytes(doc.id)) + KeyBytes(doc.id)
             + VarintLen(doc.version)
             + VarintLen(Len(doc.data)) + DataBytes(doc.data)]

\* document.rs:55-57  applied to the payload of a page that holds a document
doc_from_bytes(slice) ==
    IF slice.cut \/ Len(slice.bytes) = 0
    THEN [ok |-> FALSE]
    ELSE [ok |-> TRUE,
          val |-> [id |-> slice.bytes[1],
                   version |-> slice.bytes[2],
                   data |-> [i \in 1..slice.bytes[3] |->
                                [name |-> NameOf(slice.bytes[3 * i + 1]),
                                 value |->
                                    [variant |-> VariantOf(slice.bytes[3 * i + 2]),
                                     v |-> IF slice.last_changed
                                              /\ i = slice.bytes[3]
                                           THEN slice.last
                                           ELSE slice.bytes[3 * i + 3]]]]]]

\* What execute returns with the pager it leaves: `out` is the message or
\* the error, `alloc` the page id taken from allocate_page, if one was, and
\* `doc` the document built, if one was.
NoDoc == [id |-> EmptyText, version |-> 0, data |-> <<>>]
Returns(p, out) ==
    [ok |-> TRUE, panic |-> FALSE, p |-> p, out |-> out,
     alloc |-> None, doc |-> NoDoc]
Fails(p, error, msg) ==
    [ok |-> FALSE, panic |-> FALSE, p |-> p,
     out |-> [error |-> error, msg |-> msg], alloc |-> None, doc |-> NoDoc]
Panics(p) ==
    [ok |-> FALSE, panic |-> TRUE, p |-> p,
     out |-> [error |-> "panic", msg |-> "panic"], alloc |-> None,
     doc |-> NoDoc]

\* An error for every statement but INSERT and SELECT that is a parse
\* error: the Unimplemented property does not hold of it.
Unimplemented_as_parse(p, msg) == Fails(p, "Parse", msg)

\* lib.rs:11-12  QueryError::Unimplemented
Unimplemented(p, msg) == Fails(p, "Unimplemented", msg)

\* executor.rs:130-135  the page a document is written in
DocPage(new_page_id, bytes) ==
    [PageNew(new_page_id) EXCEPT !.data = CopyIntoData(bytes),
                                 !.used_space = bytes.len % 65536]

\* executor.rs:138-140  w is what write_page returned.
doc_written(w, new_page_id, doc) ==
    IF w.panic THEN [Panics(w.p) EXCEPT !.alloc = Some(new_page_id)]
    ELSE IF ~w.ok
         THEN [Fails(w.p, "Store", "write_page") EXCEPT
                  !.alloc = Some(new_page_id)]
    ELSE [Returns(w.p, new_page_id) EXCEPT !.alloc = Some(new_page_id),
                                           !.doc = doc]

\* executor.rs:129-140  a is what allocate_page returned.
doc_allocated(a, bytes, doc, checks) ==
    IF a.panic THEN Panics(a.p)
    ELSE doc_written(write_page(a.p, DocPage(a.id, bytes), checks), a.id, doc)

\* A write that takes its page before it looks at the length: the property
\* that a document too large leaves the pager as it was does not hold of it.
write_document_to_disk_alloc_first(p, doc, checks) ==
    IF doc_to_bytes(doc).len > DATA_SIZE
    THEN Fails(allocate_page(p, checks).p, "Serialization",
               "Document too large for single page")
    ELSE doc_allocated(allocate_page(p, checks), doc_to_bytes(doc), doc, checks)

\* executor.rs:114-141
write_document_to_disk(p, doc, checks) ==
    IF doc_to_bytes(doc).len > DATA_SIZE
    THEN Fails(p, "Serialization", "Document too large for single page")
    ELSE doc_allocated(allocate_page(p, checks), doc_to_bytes(doc), doc, checks)

\* executor.rs:109-111  s is what sync_index returned, w what
\* write_document_to_disk returned.
insert_synced(s, w) ==
    IF s.panic THEN [Panics(s.p) EXCEPT !.alloc = w.alloc, !.doc = w.doc]
    ELSE IF ~s.ok
         THEN [Fails(s.p, "Store", "Index too big for Page 0") EXCEPT
                  !.alloc = w.alloc, !.doc = w.doc]
    ELSE [Returns(s.p, [msg |-> "Inserted Document ID", id |-> w.doc.id])
             EXCEPT !.alloc = w.alloc, !.doc = w.doc]

\* executor.rs:103-111  w is what write_document_to_disk returned.
insert_stored(w, checks) ==
    IF ~w.ok THEN w
    ELSE insert_synced(
             sync_index([w.p EXCEPT
                            !.index = index_insert(w.p.index, w.doc.id, w.out)],
                        checks),
             w)

\* executor.rs:50-112
handle_insert(p, columns, source, uuid, checks) ==
    IF source.body # "Values"
    THEN Unimplemented(p, "Complex INSERT not supported")
    ELSE IF Len(columns) > Len(source.row_values)
         THEN Panics(p)      \* executor.rs:72  row_values[i] out of bounds
    ELSE insert_stored(
             write_document_to_disk(
                 p, DocumentOf(columns, source.row_values, uuid), checks),
             checks)

\* executor.rs:150  let target_id = "user_007"
target_id == 7

\* executor.rs:159-163  page is what read_page returned.
select_page(p, page) ==
    IF ~page.ok THEN Fails(p, "Store", page.err[1])
    ELSE IF ~doc_from_bytes(SliceOfData(page.val.data, page.val.used_space)).ok
         THEN Fails(p, "Serialization", "from_bytes")
    ELSE Returns(p, [msg |-> "Found",
                     doc |-> doc_from_bytes(
                                 SliceOfData(page.val.data,
                                             page.val.used_space)).val])

\* executor.rs:144-167  the query is not looked at.
handle_select(p, query) ==
    IF index_get(p.index, target_id).some
    THEN select_page(p, read_page(p, index_get(p.index, target_id).v))
    ELSE Returns(p, [msg |-> "Document not found"])

\* executor.rs:28-47  the first statement of the text decides.
execute_statement(p, statement, uuid, checks) ==
    IF statement.kind = "Insert"
    THEN IF statement.source.some
         THEN handle_insert(p, statement.columns, statement.source.v, uuid,
                            checks)
         ELSE Unimplemented(p, "INSERT without source not supported")
    ELSE IF statement.kind = "Query"
         THEN handle_select(p, statement)
    ELSE Unimplemented(p, "Only INSERT and SELECT are supported")

\* An execute that applies the last statement of the text, not the first:
\* the property that only the first statement is applied does not hold of
\* it.
execute_last(p, sql, uuid, checks) ==
    IF ~sql.parsed THEN Fails(p, "Parse", "sql parser error")
    ELSE IF Len(sql.ast) = 0 THEN Unimplemented(p, "Empty SQL statement")
    ELSE execute_statement(p, sql.ast[Len(sql.ast)], uuid, checks)

\* executor.rs:20-48
execute(p, sql, uuid, checks) ==
    IF ~sql.parsed THEN Fails(p, "Parse", "sql parser error")
    ELSE IF Len(sql.ast) = 0 THEN Unimplemented(p, "Empty SQL statement")
    ELSE execute_statement(p, sql.ast[1], uuid, checks)

\* connection.rs:85-88  the prefix of the line sent back
response(res) == IF res.ok THEN "OK" ELSE "ERROR"

(***************************************************************************)
(* btree/manager.rs                                                        *)
(***************************************************************************)
\* A fullness test that is one key late: the node shape does not hold of it.
is_full_late(node) == Len(node.keys) > NODE_CAPACITY

\* node.rs:44-46
is_full(node) == Len(node.keys) >= NODE_CAPACITY

\* node.rs:34-42
new_leaf(id) ==
    [id |-> id, parent |-> None, node_type |-> "Leaf",
     keys |-> <<>>, children |-> <<>>]

(***************************************************************************)
(* A function of manager.rs that uses a result more than once is written   *)
(* as a chain of operators, each taking the result of the step before it   *)
(* as an argument; a step given a failed result passes the failure on, as  *)
(* the ? operator does.                                                    *)
(***************************************************************************)
Done(p) == [ok |-> TRUE, panic |-> FALSE, p |-> p]
Fail(r) == [ok |-> FALSE, panic |-> r.panic, p |-> r.p, err |-> r.err]
ReadFail(p, r) == [ok |-> FALSE, panic |-> FALSE, p |-> p, err |-> r.err]
Panic(p, id) == [ok |-> FALSE, panic |-> TRUE, p |-> p, err |-> <<"panic", id>>]

\* manager.rs:131-135  the node in a page that was read.
node_of_bytes(node, node_id) ==
    IF ~node.ok THEN Err("Io", node_id) ELSE Ok(node.val)

node_of_page(page, node_id) ==
    IF ~page.ok
    THEN page
    ELSE node_of_bytes(
             from_bytes(SliceOfData(page.val.data, page.val.used_space)),
             node_id)

\* manager.rs:129-136
read_node(p, node_id) == node_of_page(read_page(p, node_id), node_id)

\* manager.rs:143-155  the page of an encoded node, written.
write_bytes(p, node_id, bytes, checks) ==
    IF bytes.len > DATA_SIZE
    THEN [ok |-> FALSE, panic |-> FALSE, p |-> p, err |-> <<"Io", node_id>>]
    ELSE write_page(p, [PageNew(node_id) EXCEPT
                           !.used_space = bytes.len % 65536,
                           !.data = CopyIntoData(bytes)], checks)

\* manager.rs:138-157
write_node(p, node, checks) == write_bytes(p, node.id, to_bytes(node), checks)

\* self.write_node(&node)? after a step w that may have failed.
write_next(w, node, checks) ==
    IF ~w.ok THEN Fail(w) ELSE write_node(w.p, node, checks)

\* slice::partition_point on a sorted slice: how many elements satisfy the
\* predicate.  Lt: |k| k < key;  Le: |k| k <= key.
PartitionPointLt(keys, key) == Cardinality({i \in 1..Len(keys) : keys[i] < key})

\* A descent by |k| k < key: search does not find separators with it.
PartitionPointLe_strict(keys, key) ==
    Cardinality({i \in 1..Len(keys) : keys[i] < key})

PartitionPointLe(keys, key) == Cardinality({i \in 1..Len(keys) : keys[i] <= key})

\* slice::binary_search on a sorted slice: Ok(idx) for some idx holding the
\* key (which one is unspecified when several do), Err otherwise.  The set
\* of the indexes (0-based) it may return.
binary_search(keys, key) == {i \in 0..(Len(keys) - 1) : keys[i + 1] = key}

\* Vec::insert(idx, x), Vec::drain(from..), 0-based.
VecInsert(s, idx, x) == SubSeq(s, 1, idx) \o <<x>> \o SubSeq(s, idx + 1, Len(s))
VecDrain(s, from) == SubSeq(s, from + 1, Len(s))
VecKeep(s, from) == SubSeq(s, 1, from)

\* manager.rs:28-35  what search may return at a leaf.
search_leaf(node, found) ==
    IF found # {}
    THEN {Ok(Some(node.children[idx + 1])) : idx \in found}
    ELSE {Ok(None)}

\* manager.rs:21-44  the results search may return.
RECURSIVE search_from(_, _, _)
RECURSIVE search_node(_, _, _)
search_node(p, node, key) ==
    IF ~node.ok
    THEN {node}
    ELSE IF node.val.node_type = "Leaf"
         THEN search_leaf(node.val, binary_search(node.val.keys, key))
         ELSE search_from(p, node.val.children[
                                 PartitionPointLe(node.val.keys, key) + 1], key)

search_from(p, current_id, key) ==
    search_node(p, read_node(p, current_id), key)

search(p, root, key) == search_from(p, root, key)

\* A move that leaves the moved child's parent pointer as it was: the
\* back-pointers are not consistent under it.
set_parent_kept(p, grandchild, sibling_id, checks) ==
    IF ~grandchild.ok
    THEN ReadFail(p, grandchild)
    ELSE write_node(p, grandchild.val, checks)

\* manager.rs:217-219  one moved child is given its new parent.
set_parent(p, grandchild, sibling_id, checks) ==
    IF ~grandchild.ok
    THEN ReadFail(p, grandchild)
    ELSE write_node(p, [grandchild.val EXCEPT !.parent = Some(sibling_id)],
                    checks)

\* manager.rs:216-220  w is the step before the loop, or its last turn.
RECURSIVE reparent(_, _, _, _)
reparent(w, ids, sibling_id, checks) ==
    IF ~w.ok THEN Fail(w)
    ELSE IF ids = <<>> THEN w
    ELSE reparent(set_parent(w.p, read_node(w.p, Head(ids)), sibling_id, checks),
                  Tail(ids), sibling_id, checks)

\* manager.rs:176
SplitPoint(keys) == Len(keys) \div 2

\* manager.rs:227-230  a leaf split copies the sibling's first key up.
LeafKeyToParent(sibling_keys) == sibling_keys[1]

\* A sibling that is always a Leaf: below a split Internal node the leaves
\* are then no longer at one depth.
SiblingOf_leaf(child, mid, new_page_id, parent_id) ==
    [id |-> new_page_id, parent |-> Some(parent_id),
     node_type |-> "Leaf",
     keys |-> IF child.node_type = "Leaf" THEN VecDrain(child.keys, mid)
              ELSE Tail(VecDrain(child.keys, mid)),
     children |-> IF child.node_type = "Leaf" THEN VecDrain(child.children, mid)
                  ELSE VecDrain(child.children, mid + 1)]

\* manager.rs:166-172, 179-213  the sibling split off a child at mid.
SiblingOf(child, mid, new_page_id, parent_id) ==
    [id |-> new_page_id, parent |-> Some(parent_id),
     node_type |-> child.node_type,
     keys |-> IF child.node_type = "Leaf" THEN VecDrain(child.keys, mid)
              ELSE Tail(VecDrain(child.keys, mid)),
     children |-> IF child.node_type = "Leaf" THEN VecDrain(child.children, mid)
                  ELSE VecDrain(child.children, mid + 1)]

\* manager.rs:179-213  what stays in the child.
ChildAfterSplit(child, mid) ==
    [child EXCEPT
        !.keys = VecKeep(child.keys, mid),
        !.children = IF child.node_type = "Leaf"
                     THEN VecKeep(child.children, mid)
                     ELSE VecKeep(child.children, mid + 1)]

\* manager.rs:208-213, 223, 227-233  the parent with the key and the sibling.
ParentAfterSplit(parent, child_idx, child, mid, sibling) ==
    [parent EXCEPT
        !.keys = VecInsert(parent.keys, child_idx,
                           IF child.node_type = "Leaf"
                           THEN LeafKeyToParent(sibling.keys)
                           ELSE Head(VecDrain(child.keys, mid))),
        !.children = VecInsert(parent.children, child_idx + 1, sibling.id)]

\* manager.rs:241  Ok(()), with the caller's `parent` as it now is.
split_done(w, parent) ==
    IF ~w.ok THEN Fail(w)
    ELSE [ok |-> TRUE, panic |-> FALSE, p |-> w.p, parent |-> parent]

\* manager.rs:214-239  the moved children are given their parent, then
\* child, sibling and parent are written.
split_write(p, child, sibling, parent, leaf, checks) ==
    split_done(
        write_next(
            write_next(
                write_next(
                    IF leaf THEN Done(p)
                    ELSE reparent(Done(p), sibling.children, sibling.id, checks),
                    child, checks),
                sibling, checks),
            parent, checks),
        parent)

\* manager.rs:166-239  r is the child as read, a the page allocated.
split_node(p, parent, child_idx, checks, r, a) ==
    IF ~r.ok THEN ReadFail(p, r)
    ELSE IF a.panic THEN Panic(a.p, a.id)
    ELSE split_write(
             a.p,
             ChildAfterSplit(r.val, SplitPoint(r.val.keys)),
             SiblingOf(r.val, SplitPoint(r.val.keys), a.id, parent.id),
             ParentAfterSplit(parent, child_idx, r.val, SplitPoint(r.val.keys),
                              SiblingOf(r.val, SplitPoint(r.val.keys), a.id,
                                        parent.id)),
             r.val.node_type = "Leaf", checks)

\* manager.rs:161-241  returns the pager and the caller's `parent`.
split_child(p, parent, child_idx, checks) ==
    split_node(p, parent, child_idx, checks,
               read_node(p, parent.children[child_idx + 1]),
               allocate_page(p, checks))

\* A descent that stays in the left child after a split: the separator
\* order does not hold of it.
DescendAfterSplit_stay(key, separator, idx) == idx

\* manager.rs:116-118  which of the two children to descend into.
DescendAfterSplit(key, separator, idx) ==
    IF key > separator THEN idx + 1 ELSE idx

RECURSIVE insert_non_full(_, _, _, _, _)
RECURSIVE insert_into(_, _, _, _, _)
RECURSIVE insert_below(_, _, _, _, _, _, _)
RECURSIVE insert_after_split(_, _, _, _, _)

\* manager.rs:112-121  s is what split_child returned.
insert_after_split(s, idx, key, value, checks) ==
    IF ~s.ok THEN Fail(s)
    ELSE insert_non_full(
             s.p,
             s.parent.children[
                 DescendAfterSplit(key, s.parent.keys[idx + 1], idx) + 1],
             key, value, checks)

\* manager.rs:106-121  child is children[idx] as read.
insert_below(p, node, idx, child, key, value, checks) ==
    IF ~child.ok THEN ReadFail(p, child)
    ELSE IF is_full(child.val)
         THEN insert_after_split(split_child(p, node, idx, checks), idx, key,
                                 value, checks)
         ELSE insert_non_full(p, node.children[idx + 1], key, value, checks)

\* manager.rs:94-122  r is the node as read.
insert_into(p, r, key, value, checks) ==
    IF ~r.ok THEN ReadFail(p, r)
    ELSE IF r.val.node_type = "Leaf"
         THEN write_node(
                  p,
                  [r.val EXCEPT
                     !.keys = VecInsert(r.val.keys,
                                        PartitionPointLt(r.val.keys, key), key),
                     !.children = VecInsert(r.val.children,
                                            PartitionPointLt(r.val.keys, key),
                                            value)],
                  checks)
         ELSE insert_below(
                  p, r.val, PartitionPointLt(r.val.keys, key),
                  read_node(p, r.val.children[
                                   PartitionPointLt(r.val.keys, key) + 1]),
                  key, value, checks)

\* manager.rs:91-125
insert_non_full(p, node_id, key, value, checks) ==
    insert_into(p, read_node(p, node_id), key, value, checks)

\* A new root that names the old root as its parent: the root split
\* property does not hold of it.
NewRoot_with_parent(new_root_id, old_root_id) ==
    [id |-> new_root_id, parent |-> Some(old_root_id), node_type |-> "Internal",
     keys |-> <<>>, children |-> <<old_root_id>>]

\* manager.rs:57-66
NewRoot(new_root_id, old_root_id) ==
    [id |-> new_root_id, parent |-> None, node_type |-> "Internal",
     keys |-> <<>>, children |-> <<old_root_id>>]

NoSplit == [done |-> FALSE]

\* What insert returns: the pager, the manager's root_id and, when the
\* root was split, `split`: the pager as split_child left it (manager.rs:77)
\* and the ids of the three nodes.
Returned(i, root_id, split) ==
    IF i.ok
    THEN [ok |-> TRUE, panic |-> FALSE, p |-> i.p, root_id |-> root_id,
          split |-> split]
    ELSE [ok |-> FALSE, panic |-> i.panic, p |-> i.p, root_id |-> root_id,
          split |-> split, err |-> i.err]

\* manager.rs:77-83  s is what split_child returned on the new root.
insert_in_new_root(s, root, new_root_id, key, data_page_id, checks) ==
    IF ~s.ok
    THEN Returned(Fail(s), root, NoSplit)
    ELSE Returned(insert_non_full(s.p, new_root_id, key, data_page_id, checks),
                  new_root_id,
                  [done |-> TRUE, p |-> s.p, new_root_id |-> new_root_id,
                   old_root_id |-> root, sibling_id |-> s.parent.children[2]])

\* manager.rs:69-77  w is the write of the old root under its new parent.
split_root(w, root, new_root_id, key, data_page_id, checks) ==
    IF ~w.ok
    THEN Returned(Fail(w), root, NoSplit)
    ELSE insert_in_new_root(
             split_child(w.p, NewRoot(new_root_id, root), 0, checks),
             root, new_root_id, key, data_page_id, checks)

\* manager.rs:56-74  a is the page allocated for the new root.
grow_root(p, root, old_root, a, key, data_page_id, checks) ==
    IF a.panic
    THEN Returned(Panic(a.p, a.id), root, NoSplit)
    ELSE split_root(
             write_next(write_node(a.p, NewRoot(a.id, root), checks),
                        [old_root EXCEPT !.parent = Some(a.id)], checks),
             root, a.id, key, data_page_id, checks)

\* manager.rs:50-88  r is the root as read.
insert_at_root(p, root, r, key, data_page_id, checks) ==
    IF ~r.ok
    THEN Returned(ReadFail(p, r), root, NoSplit)
    ELSE IF is_full(r.val)
         THEN grow_root(p, root, r.val, allocate_page(p, checks), key,
                        data_page_id, checks)
         ELSE Returned(insert_non_full(p, root, key, data_page_id, checks),
                       root, NoSplit)

\* manager.rs:49-89
insert(p, root, key, data_page_id, checks) ==
    insert_at_root(p, root, read_node(p, root), key, data_page_id, checks)

(***************************************************************************)
(* State.                                                                  *)
(*   file, total_pages, master_key, index, rng   the Pager's fields        *)
(*   overflow_checks   whether the build panics on integer overflow        *)
(*   panicked          the thread has panicked; nothing runs after that    *)
(*   root_id           BTreeManager.root_id                                *)
(*   inserted          history: key -> value of the inserts that returned  *)
(*                     Ok (the most recent one per key)                    *)
(*   dups              history: how many inserts named a key already       *)
(*                     inserted                                            *)
(*   result            the last call and what it returned; for an insert   *)
(*                     that split the root, the three nodes of the split   *)
(*                     as they were before the key went in                 *)
(* and, kept by the Pager specifications only:                             *)
(*   written           history: page id -> the page last handed to         *)
(*                     write_page with that id, and the record it wrote    *)
(*   produced          history: every record write_page has produced       *)
(*   alloc_log         history: the ids allocate_page returned, in order   *)
(*   calls             how many Pager calls have been made                 *)
(* and, of the server (aura-server) and its clients (aura-cli):            *)
(*   conns             task -> the locals of its handle_socket future      *)
(*   lock              the tasks that hold the guard of Mutex<Pager>       *)
(*   clients           connection -> the client at its other end           *)
(*   to_server         connection -> the chunks sent and not yet read      *)
(*   to_client         connection -> the chunks written by the server and  *)
(*                     not yet read                                        *)
(*   entropy           how many keypairs the server has generated          *)
(***************************************************************************)
VARIABLES file, total_pages, master_key, index, rng, overflow_checks,
          panicked, root_id, inserted, dups, result,
          written, produced, alloc_log, calls, indexed,
          conns, lock, clients, to_server, to_client, entropy

network == <<conns, lock, clients, to_server, to_client, entropy>>

vars == <<file, total_pages, master_key, index, rng, overflow_checks,
          panicked, root_id, inserted, dups, result,
          written, produced, alloc_log, calls, indexed, network>>

history == <<written, produced, alloc_log, calls, indexed>>

Pager == [file |-> file, total_pages |-> total_pages,
          master_key |-> master_key, index |-> index, rng |-> rng]

SetPager(p) ==
    /\ file' = p.file
    /\ total_pages' = p.total_pages
    /\ master_key' = p.master_key
    /\ index' = p.index
    /\ rng' = p.rng

(***************************************************************************)
(* The server before a connection was accepted (main.rs:28-37): the Pager  *)
(* is open behind its Mutex, no task is spawned and nothing is on a wire.  *)
(***************************************************************************)
\* The connections the listener accepts, each with the task spawned for
\* it, and how many requests the clients send in all.
Tasks == {1, 2}
MaxRequests == 2

\* A shared secret: the one of keypair k and encapsulation r, or the one
\* decapsulate derives from the secret key and a ciphertext that is no
\* encapsulation to it.
NoSecret == [k |-> 0, r |-> 0, implicit_rejection |-> FALSE]

\* connection.rs:20-22  the locals of handle_socket, before it is spawned
\* (pc "none").  at_lock and uuid keep what the task saw when it took the
\* lock.
NoTask ==
    [pc |-> "none", state |-> "Handshake", session_key |-> NoSecret,
     server_keys |-> 0, n |-> 0, request |-> <<>>, uuid |-> 0,
     at_lock |-> <<>>, stored |-> <<>>, response |-> <<>>, error |-> ""]

\* network.rs:7-11  AuraClient before connect
NoClient ==
    [pc |-> "none", session_key |-> NoSecret, sent |-> 0, received |-> 0]

InitNetwork ==
    /\ conns = [t \in Tasks |-> NoTask]
    /\ lock = {}
    /\ clients = [t \in Tasks |-> NoClient]
    /\ to_server = [t \in Tasks |-> <<>>]
    /\ to_client = [t \in Tasks |-> <<>>]
    /\ entropy = 0

MasterKeys == {"K1", "K2"}
FirstValue(key) == 10 + key
SecondValue(key) == 30 + key

\* pager.rs:22-73 on a file that does not exist yet: the file is created
\* empty, total_pages = 0 and the index is new.
OpenFresh(key) ==
    [file |-> <<>>, total_pages |-> 0, master_key |-> key,
     index |-> PrimaryIndexNew, rng |-> 1]

(***************************************************************************)
(* The B-tree on a fresh Pager, set up as tests.rs:163-176 does: the root  *)
(* page is allocated and an empty leaf written to it.                      *)
(***************************************************************************)
TreeSetup(key, checks) ==
    LET a == allocate_page(OpenFresh(key), checks)
    IN  [root_id |-> a.id, w |-> write_node(a.p, new_leaf(a.id), checks)]

InitBTree ==
    /\ overflow_checks \in BOOLEAN
    /\ LET t == TreeSetup("K1", overflow_checks)
       IN  /\ file = t.w.p.file
           /\ total_pages = t.w.p.total_pages
           /\ master_key = t.w.p.master_key
           /\ index = t.w.p.index
           /\ rng = t.w.p.rng
           /\ root_id = t.root_id
    /\ panicked = FALSE
    /\ inserted = <<>>
    /\ dups = 0
    /\ result = [op |-> "new"]
    /\ written = <<>>
    /\ produced = {}
    /\ alloc_log = <<>>
    /\ calls = 0
    /\ indexed = <<>>
    /\ InitNetwork

\* The nodes of a root split, read from the pager split_child left behind.
SplitNodes(split) ==
    IF ~split.done
    THEN NoSplit
    ELSE [done |-> TRUE,
          new_root_id |-> split.new_root_id,
          new_root |-> read_node(split.p, split.new_root_id),
          old_root |-> read_node(split.p, split.old_root_id),
          sibling |-> read_node(split.p, split.sibling_id)]

\* BTreeManager::insert(key, data_page_id).  The value is FirstValue(key)
\* for a key not inserted before and SecondValue(key) for one that was.
ValueFor(key) ==
    IF key \in DOMAIN inserted THEN SecondValue(key) ELSE FirstValue(key)

\* The state after an insert that returned r.
InsertReturned(key, data_page_id, r) ==
    /\ SetPager(r.p)
    /\ root_id' = r.root_id
    /\ panicked' = r.panic
    /\ inserted' = IF r.ok
                   THEN [k \in DOMAIN inserted \cup {key} |->
                            IF k = key THEN data_page_id ELSE inserted[k]]
                   ELSE inserted
    /\ dups' = IF key \in DOMAIN inserted THEN dups + 1 ELSE dups
    /\ result' = [op |-> "insert", key |-> key, ok |-> r.ok,
                  split |-> SplitNodes(r.split)]
    /\ UNCHANGED <<network, overflow_checks, history>>

Insert(key) ==
    /\ ~panicked
    /\ InsertReturned(key, ValueFor(key),
                      insert(Pager, root_id, key, ValueFor(key),
                             overflow_checks))

\* BTreeManager::search(key): it reads pages and changes nothing.  What it
\* returns is search(Pager, root_id, key).
Search(key) ==
    /\ ~panicked
    /\ search(Pager, root_id, key) # {}
    /\ UNCHANGED vars

\* Inserts of pairwise distinct keys.
InsertDistinct(key) ==
    /\ key \notin DOMAIN inserted
    /\ Insert(key)

\* Inserts that may name a key again, at most MaxDups times in a run.
InsertAny(key) ==
    /\ key \in DOMAIN inserted => dups < MaxDups
    /\ Insert(key)

NextBTree ==
    \/ \E key \in 1..MaxKey : InsertDistinct(key)
    \/ \E key \in 1..(MaxKey + 1) : Search(key)

SpecBTree == InitBTree /\ [][NextBTree]_vars

NextBTreeDup ==
    \/ \E key \in 1..MaxDupKey : InsertAny(key)
    \/ \E key \in 1..(MaxDupKey + 1) : Search(key)

SpecBTreeDup == InitBTree /\ [][NextBTreeDup]_vars

(***************************************************************************)
(* The Pager on its own: write_page, read_page, allocate_page, sync_index  *)
(* and PrimaryIndex::insert on pager.index, called in any order on a       *)
(* Pager opened on a new file.  Page ids are drawn from both ends of u32.  *)
(***************************************************************************)
PageIds == {0, 1, U32_MAX - 1, U32_MAX}

\* tests.rs:29-32: Page::new(id) with used_space 42 and data[0..4] = "test".
TestPage(id) ==
    [PageNew(id) EXCEPT !.used_space = 42,
                        !.data = [body |-> [bytes |-> <<116, 101, 115, 116>>,
                                            len |-> 4],
                                  last |-> 0]]

\* A page whose payload uses all DATA_SIZE bytes, the last one non-zero.
FullPage(id) ==
    [id |-> id, page_type |-> 2, used_space |-> DATA_SIZE, next_page |-> 1,
     data |-> [body |-> [bytes |-> <<255>>, len |-> DATA_SIZE], last |-> 255]]

PageInputs(id) == {TestPage(id), FullPage(id)}

InitPager ==
    /\ overflow_checks \in BOOLEAN
    /\ LET p == OpenFresh("K1")
       IN  /\ file = p.file
           /\ total_pages = p.total_pages
           /\ master_key = p.master_key
           /\ index = p.index
           /\ rng = p.rng
    /\ panicked = FALSE
    /\ root_id = 0
    /\ inserted = <<>>
    /\ dups = 0
    /\ result = [op |-> "open", key |-> "K1", ok |-> TRUE, len |-> 0]
    /\ written = <<>>
    /\ produced = {}
    /\ alloc_log = <<>>
    /\ calls = 0
    /\ indexed = <<>>
    /\ InitNetwork

Record(w, id, page, enc) ==
    [i \in DOMAIN w \cup {id} |->
        IF i = id THEN [page |-> page, enc |-> enc] ELSE w[i]]

\* Pager::write_page(&page)
WritePage(page) ==
    /\ ~panicked
    /\ calls < MaxCalls
    /\ LET r == write_page(Pager, page, overflow_checks)
           enc == r.p.file[PageOffset(page.id)]
       IN  /\ SetPager(r.p)
           /\ panicked' = r.panic
           /\ written' = Record(written, page.id, page, enc)
           /\ produced' = produced \cup {enc}
           /\ result' = [op |-> "write_page", page |-> page, ok |-> r.ok]
    /\ calls' = calls + 1
    /\ UNCHANGED <<network, overflow_checks, root_id, inserted, dups, alloc_log,
                   indexed>>

\* Pager::read_page(id): it changes nothing.  What it returns is
\* read_page(Pager, id).
ReadPage(id) ==
    /\ ~panicked
    /\ read_page(Pager, id).ok \in BOOLEAN
    /\ UNCHANGED vars

\* Pager::allocate_page()
AllocatePage ==
    /\ ~panicked
    /\ calls < MaxCalls
    /\ LET a == allocate_page(Pager, overflow_checks)
       IN  /\ SetPager(a.p)
           /\ panicked' = a.panic
           /\ alloc_log' = IF a.panic THEN alloc_log ELSE Append(alloc_log, a.id)
           /\ result' = [op |-> "allocate_page", id |-> a.id, ok |-> ~a.panic]
    /\ calls' = calls + 1
    /\ UNCHANGED <<network, overflow_checks, root_id, inserted, dups, written,
                   produced, indexed>>

\* pager.index.insert(key, page_id)
IndexInsert(key, page_id) ==
    /\ ~panicked
    /\ calls < MaxCalls
    /\ index' = index_insert(index, key, page_id)
    /\ result' = [op |-> "index.insert", key |-> key, ok |-> TRUE]
    /\ calls' = calls + 1
    /\ indexed' = [k \in DOMAIN indexed \cup {key} |->
                      IF k = key THEN page_id ELSE indexed[k]]
    /\ UNCHANGED <<network, file, total_pages, master_key, rng, overflow_checks,
                   panicked, root_id, inserted, dups, written, produced,
                   alloc_log>>

\* Pager::sync_index()
SyncIndex ==
    /\ ~panicked
    /\ calls < MaxCalls
    /\ LET r == sync_index(Pager, overflow_checks)
           wrote == r.p.file # file
           enc == r.p.file[PageOffset(0)]
       IN  /\ SetPager(r.p)
           /\ panicked' = r.panic
           /\ written' = IF wrote THEN Record(written, 0, r.page, enc)
                         ELSE written
           /\ produced' = IF wrote THEN produced \cup {enc} ELSE produced
           /\ result' = [op |-> "sync_index", ok |-> r.ok]
    /\ calls' = calls + 1
    /\ UNCHANGED <<network, overflow_checks, root_id, inserted, dups, alloc_log,
                   indexed>>

NextPager ==
    \/ \E id \in PageIds : \E page \in PageInputs(id) : WritePage(page)
    \/ \E id \in PageIds : ReadPage(id)
    \/ AllocatePage
    \/ IndexInsert(1, 1)
    \/ SyncIndex

SpecPager == InitPager /\ [][NextPager]_vars

(***************************************************************************)
(* The Pager and its file under tampering: between calls the bytes of a    *)
(* record on disk may be changed (tests.rs:63-67), and the file may be     *)
(* opened again under either master key.                                   *)
(***************************************************************************)
SmallIds == {0, 1}

\* What the record `rec` at an offset can be changed into: a changed
\* nonce, a flipped ciphertext or tag bit, the ciphertext or the tag of
\* another record, another whole record that was written to the file, or
\* zeros.
TamperedRecords(rec) ==
    IF IsPartial(rec) THEN {}
    ELSE ({[rec EXCEPT !.nonce = 0],
           [rec EXCEPT !.ct.bits = 1],
           [rec EXCEPT !.tag.bits = 1],
           ZeroRecord}
          \cup {[rec EXCEPT !.ct = other.ct] : other \in produced}
          \cup {[rec EXCEPT !.tag = other.tag] : other \in produced}
          \cup produced) \ {rec}

Tamper(id, rec) ==
    /\ ~panicked
    /\ calls < MaxCalls
    /\ PageOffset(id) \in DOMAIN file
    /\ ~IsPartial(file[PageOffset(id)])
    /\ rec \in TamperedRecords(file[PageOffset(id)])
    /\ file' = [file EXCEPT ![PageOffset(id)] = rec]
    /\ result' = [op |-> "tamper", id |-> id, ok |-> TRUE]
    /\ calls' = calls + 1
    /\ UNCHANGED <<network, total_pages, master_key, index, rng, overflow_checks,
                   panicked, root_id, inserted, dups, written, produced,
                   alloc_log, indexed>>

\* The Pager is dropped and the file opened again: Pager::open(path, key)
Reopen(key) ==
    /\ ~panicked
    /\ calls < MaxCalls
    /\ SetPager(open(file, key, rng))
    /\ result' = [op |-> "open", key |-> key, ok |-> TRUE,
                  len |-> FileLen(file)]
    /\ calls' = calls + 1
    /\ UNCHANGED <<network, overflow_checks, panicked, root_id, inserted, dups,
                   written, produced, alloc_log, indexed>>

NextTamper ==
    \/ \E id \in SmallIds : \E page \in PageInputs(id) : WritePage(page)
    \/ \E id \in SmallIds : ReadPage(id)
    \/ \E id \in SmallIds :
          \E rec \in TamperedRecords(ReadAt(file, PageOffset(id))) :
              Tamper(id, rec)
    \/ \E key \in MasterKeys : Reopen(key)

SpecTamper == InitPager /\ [][NextTamper]_vars

(***************************************************************************)
(* The primary index and the file it is kept in: entries are put into      *)
(* pager.index, the index is synced to page 0, page 0 is also written as   *)
(* a data page or changed on disk, bytes that are no whole record are      *)
(* appended to the file, and the file is opened again under either key.    *)
(***************************************************************************)
IndexKeys == {1, FitKey, LongKey}
TailLens == {1, ENCRYPTED_PAGE_SIZE - 1}
IndexFileIds == {0, U32_MAX}

\* The file grows by n bytes, n no multiple of ENCRYPTED_PAGE_SIZE.
AppendBytes(n) ==
    /\ ~panicked
    /\ calls < MaxCalls
    /\ FileLen(file) % ENCRYPTED_PAGE_SIZE = 0
    /\ file' = WriteAt(file, FileLen(file), PartialRecord(n))
    /\ result' = [op |-> "append", len |-> n, ok |-> TRUE]
    /\ calls' = calls + 1
    /\ UNCHANGED <<network, total_pages, master_key, index, rng, overflow_checks,
                   panicked, root_id, inserted, dups, written, produced,
                   alloc_log, indexed>>

NextIndex ==
    \/ \E key \in IndexKeys : IndexInsert(key, 1)
    \/ SyncIndex
    \/ \E id \in IndexFileIds : \E page \in PageInputs(id) : WritePage(page)
    \/ \E rec \in TamperedRecords(ReadAt(file, PageOffset(0))) : Tamper(0, rec)
    \/ \E n \in TailLens : AppendBytes(n)
    \/ \E key \in MasterKeys : Reopen(key)

SpecIndex == InitPager /\ [][NextIndex]_vars

(***************************************************************************)
(* The query engine on a Pager opened on a new file (tests.rs:10-38 of     *)
(* aura-query): SQL texts are executed, entries are put into pager.index   *)
(* directly, and a B-tree is made in the same file and filled, its root    *)
(* page taken from allocate_page as tests.rs:163-176 of aura-store does.   *)
(***************************************************************************)
Sql(ast) == [parsed |-> TRUE, ast |-> ast]
ParseError == [parsed |-> FALSE, ast |-> <<>>]

Values(row_values) == Some([body |-> "Values", row_values |-> row_values])
SelectSource == Some([body |-> "Select", row_values |-> <<>>])
NoSource == [some |-> FALSE, v |-> [body |-> "None", row_values |-> <<>>]]

InsertStatement(columns, source) ==
    [kind |-> "Insert", columns |-> columns, source |-> source]

\* The expressions given for the id column: 'user_007', 'user_001', '' and
\* the number 7.
IdLiterals ==
    {SingleQuotedString(target_id), SingleQuotedString(1),
     SingleQuotedString(EmptyText), Number(7)}

\* INSERT INTO users (id, name) VALUES (<id>, 'user_002'), the same with a
\* name as long as a page's payload and with a name that makes the document
\* one byte longer than a page's payload, and
\* INSERT INTO users (name) VALUES ('user_002')
InsertTexts ==
    {Sql(<<InsertStatement(<<"id", "name">>,
                           Values(<<lit, SingleQuotedString(2)>>))>>) :
        lit \in IdLiterals}
    \cup {Sql(<<InsertStatement(<<"id", "name">>,
                                Values(<<SingleQuotedString(target_id),
                                         SingleQuotedString(LongKey)>>))>>),
          Sql(<<InsertStatement(<<"id", "name">>,
                                Values(<<SingleQuotedString(target_id),
                                         SingleQuotedString(OverText)>>))>>),
          Sql(<<InsertStatement(<<"name">>,
                                Values(<<SingleQuotedString(2)>>))>>)}

\* INSERT INTO users (name) SELECT ... and INSERT INTO users DEFAULT VALUES
UnsupportedInsertTexts ==
    {Sql(<<InsertStatement(<<"name">>, SelectSource)>>),
     Sql(<<InsertStatement(<<>>, NoSource)>>)}

\* SELECT * FROM users WHERE id = '<pk>'
SelectKeys == {target_id, 1}
SelectTexts == {Sql(<<[kind |-> "Query", pk |-> k]>>) : k \in SelectKeys}

\* UPDATE ..., DELETE ..., the empty text and a text that does not parse
OtherTexts ==
    {Sql(<<[kind |-> "Update"]>>), Sql(<<[kind |-> "Delete"]>>), Sql(<<>>),
     ParseError}

\* The records of file g that file f does not hold.
NewRecords(f, g) ==
    {g[o] : o \in DOMAIN g} \ {f[o] : o \in DOMAIN f}

\* The pages execute wrote, added to w: the page of the document when one
\* was written, and page 0 when sync_index returned Ok.
WrittenBy(w, r) ==
    IF ~r.alloc.some \/ r.doc = NoDoc THEN w
    ELSE IF ~r.ok
         THEN Record(w, r.alloc.v, DocPage(r.alloc.v, doc_to_bytes(r.doc)),
                     r.p.file[PageOffset(r.alloc.v)])
    ELSE Record(Record(w, r.alloc.v,
                       DocPage(r.alloc.v, doc_to_bytes(r.doc)),
                       r.p.file[PageOffset(r.alloc.v)]),
                0, IndexPage(index_to_bytes(r.p.index)), r.p.file[0])

\* The state after execute(sql) returned r.
Executed(sql, r) ==
    /\ SetPager(r.p)
    /\ panicked' = r.panic
    /\ result' = [op |-> "execute", sql |-> sql, ok |-> r.ok, out |-> r.out,
                  response |-> response(r), alloc |-> r.alloc, doc |-> r.doc]
    /\ written' = WrittenBy(written, r)
    /\ produced' = produced \cup NewRecords(file, r.p.file)
    /\ alloc_log' = IF r.alloc.some THEN Append(alloc_log, r.alloc.v)
                    ELSE alloc_log
    /\ indexed' = IF r.doc = NoDoc THEN indexed
                  ELSE [k \in DOMAIN indexed \cup {r.doc.id} |->
                           IF k = r.doc.id THEN r.alloc.v ELSE indexed[k]]
    /\ calls' = calls + 1
    /\ UNCHANGED <<overflow_checks, root_id, inserted, dups>>

\* executor.rs:92-94  what Uuid::new_v4() can return in execute(sql): it is
\* called for an INSERT ... VALUES that leaves doc_id empty, and not at all
\* otherwise.
UuidsDrawn(sql) ==
    IF /\ sql.parsed /\ Len(sql.ast) > 0 /\ sql.ast[1].kind = "Insert"
       /\ sql.ast[1].source.v.body = "Values"
       /\ Len(sql.ast[1].columns) <= Len(sql.ast[1].source.v.row_values)
       /\ doc_id_of(sql.ast[1].columns, sql.ast[1].source.v.row_values)
             = EmptyText
    THEN Uuids
    ELSE {EmptyText}

\* QueryEngine::new(&mut pager).execute(sql)
Execute(sql) ==
    /\ ~panicked
    /\ calls < MaxStatements
    /\ \E uuid \in UuidsDrawn(sql) :
          Executed(sql, execute(Pager, sql, uuid, overflow_checks))
    /\ UNCHANGED network

\* The state after the root leaf of a new tree was written.
TreeMade(id, w) ==
    /\ SetPager(w.p)
    /\ panicked' = w.panic
    /\ root_id' = id
    /\ result' = [op |-> "new", ok |-> w.ok, root_id |-> id]
    /\ calls' = calls + 1
    /\ UNCHANGED <<network, overflow_checks, inserted, dups, written, produced,
                   alloc_log, indexed>>

\* tests.rs:163-176  allocate_page, write an empty leaf, BTreeManager::new
NewTree ==
    /\ ~panicked
    /\ calls < MaxStatements
    /\ root_id = 0
    /\ TreeMade(allocate_page(Pager, overflow_checks).id,
                write_node(allocate_page(Pager, overflow_checks).p,
                           new_leaf(allocate_page(Pager, overflow_checks).id),
                           overflow_checks))

\* The keys put into the tree, in ascending order: one more than a node
\* holds.
EngineTreeKeys == 1..(NODE_CAPACITY + 1)

TreeInsert(key) ==
    /\ root_id # 0
    /\ key = Cardinality(DOMAIN inserted) + 1
    /\ InsertDistinct(key)

\* pager.index.insert(key, page_id) with the page of a document
IndexKey == {1, target_id}
IndexPut(key, page_id) ==
    /\ calls < MaxStatements
    /\ page_id \in {alloc_log[i] : i \in DOMAIN alloc_log}
    /\ IndexInsert(key, page_id)

NextEngine ==
    \/ \E sql \in InsertTexts : Execute(sql)
    \/ \E sql \in UnsupportedInsertTexts : Execute(sql)
    \/ \E sql \in SelectTexts : Execute(sql)
    \/ \E sql \in OtherTexts : Execute(sql)
    \/ \E key \in IndexKey : \E page_id \in 1..U32_MAX : IndexPut(key, page_id)
    \/ NewTree
    \/ \E key \in EngineTreeKeys : TreeInsert(key)

\* No page id of these runs comes near u32::MAX, so no addition overflows
\* and the build with overflow checks stands for both builds.
InitEngine == InitPager /\ overflow_checks

SpecEngine == InitEngine /\ [][NextEngine]_vars

(***************************************************************************)
(* The database over a restart: documents are inserted, the Pager is       *)
(* dropped and the file is opened again with the same master key.          *)
(***************************************************************************)
\* INSERT INTO users (id) VALUES ('<id>')
PersistTexts ==
    {Sql(<<InsertStatement(<<"id">>, Values(<<SingleQuotedString(k)>>))>>) :
        k \in {target_id, TailKey} \cup WideKeys}

NextPersist ==
    \/ \E sql \in PersistTexts : Execute(sql)
    \/ Reopen("K1")

SpecPersist == InitEngine /\ [][NextPersist]_vars

(***************************************************************************)
(* The server over a restart (aura-server/src/main.rs:20-32): main draws a *)
(* master key and opens the database file with it.                         *)
(***************************************************************************)
\* symmetric.rs  generate_key(): the keys the generator can return
generate_key == MasterKeys

\* main.rs:25-29  let master_key = symmetric::generate_key();
\* Pager::open("aura_main.db", master_key)
Startup == \E key \in generate_key : Reopen(key)

\* INSERT INTO users (id, name) VALUES ('<id>', 'user_002')
RestartTexts ==
    {Sql(<<InsertStatement(<<"id", "name">>,
                           Values(<<SingleQuotedString(k),
                                    SingleQuotedString(2)>>))>>) :
        k \in {target_id, 1}}

NextRestart ==
    \/ \E sql \in RestartTexts : Execute(sql)
    \/ \E sql \in SelectTexts : Execute(sql)
    \/ Startup

SpecRestart == InitEngine /\ [][NextRestart]_vars

(***************************************************************************)
(* The key exchange (aura-security/src/kem.rs).  A keypair is the number   *)
(* of the random draw that made it; a chunk of bytes on a wire is its      *)
(* length, the keypair and the draw it was made with (0: none) and, when   *)
(* it is text, the text.                                                   *)
(***************************************************************************)
CIPHERTEXT_BYTES == 1568
PUBLICKEY_BYTES == 1568
BUFFER_SIZE == 4096

Bytes(len, k, r, text) == [len |-> len, k |-> k, r |-> r, text |-> text]

PublicKey(k) == Bytes(PUBLICKEY_BYTES, k, 0, <<>>)
Ciphertext(k, r) == Bytes(CIPHERTEXT_BYTES, k, r, <<>>)

\* 1568 bytes that no encapsulate call returned, and fewer bytes than a
\* ciphertext has
RandomBytes == Bytes(CIPHERTEXT_BYTES, 0, 0, <<>>)
ShortBytes == Bytes(32, 0, 0, <<>>)

\* kem.rs:13-16  kyber1024::keypair() after `drawn` random draws
generate(drawn) == drawn + 1

SharedSecret(k, r) == [k |-> k, r |-> r, implicit_rejection |-> FALSE]

\* kem.rs:21-30 and network.rs:32-34  r is the random draw.
encapsulate(pk_bytes, r) ==
    IF pk_bytes.len # PUBLICKEY_BYTES THEN Err("KemFailed", 0)
    ELSE Ok([shared_secret |-> SharedSecret(pk_bytes.k, r),
             ciphertext |-> Ciphertext(pk_bytes.k, r)])

\* A decapsulation that never recovers the secret of the encapsulation: the
\* property that both ends hold the same key does not hold of it.
decapsulate_rejecting(ciphertext_bytes, sk) ==
    IF ciphertext_bytes.len # CIPHERTEXT_BYTES THEN Err("KemFailed", 0)
    ELSE Ok([k |-> sk, r |-> ciphertext_bytes.r, implicit_rejection |-> TRUE])

\* kem.rs:33-39  Ciphertext::from_bytes fails on a wrong length only, and
\* kyber1024::decapsulate returns a shared secret for every ciphertext: the
\* one of the encapsulation when the ciphertext is one to this key, and one
\* derived from the secret key and the ciphertext otherwise.
decapsulate(ciphertext_bytes, sk) ==
    IF ciphertext_bytes.len # CIPHERTEXT_BYTES THEN Err("KemFailed", 0)
    ELSE IF ciphertext_bytes.k = sk /\ ciphertext_bytes.r # 0
         THEN Ok(SharedSecret(sk, ciphertext_bytes.r))
    ELSE Ok([k |-> sk, r |-> ciphertext_bytes.r, implicit_rejection |-> TRUE])

(***************************************************************************)
(* The server (aura-server/src/main.rs, connection.rs) and its clients     *)
(* (aura-cli/src/network.rs).  A task is at one of the await points of     *)
(* handle_socket:                                                          *)
(*   "read_ct"    in socket.read(&mut ct_buffer)                           *)
(*   "read_req"   in socket.read(&mut buffer)                              *)
(*   "lock"       in db.lock()                                             *)
(*   "execute"    holding the guard, before execute                        *)
(*   "store"      holding the guard, in handle_insert after                *)
(*                write_document_to_disk returned Ok                       *)
(*   "write"      in socket.write_all(response)                            *)
(*   "returned", "failed", "panicked"   the future ended with Ok(()), with *)
(*                an error, or by a panic caught at the task boundary      *)
(***************************************************************************)
\* The bytes one TCP segment carries: a read can return when the first
\* segment of a longer write has arrived.
Segment == 1448

\* What socket.read can return for a buffer of `cap` bytes when a chunk of
\* `len` bytes is the next on the wire.
ReadSizes(len, cap) ==
    {IF len < cap THEN len ELSE cap}
        \cup (IF len > Segment /\ cap > Segment THEN {Segment} ELSE {})

\* The future of handle_socket has ended with `how`: its locals, the
\* ConnectionState and the socket among them, are dropped.
Ended(how, error) ==
    [NoTask EXCEPT !.pc = how, !.state = "Dropped", !.error = error]
Gone == {"returned", "failed", "panicked"}

\* connection.rs:39-40  ct_buffer after n bytes of chunk were read into it:
\* 1568 bytes in every case, the chunk's when all of them were read.
ct_buffer(chunk, n) ==
    IF n = CIPHERTEXT_BYTES /\ chunk.len = n THEN chunk ELSE RandomBytes

\* connection.rs:49-59  d is what kem::decapsulate returned.
handshake_done(conn, d) ==
    IF d.ok
    THEN [conn EXCEPT !.state = "Authenticated", !.session_key = d.val,
                      !.pc = "read_req"]
    ELSE Ended("failed", "Handshake Failed: Invalid Kyber Ciphertext")

\* A handshake that does not look at the number of bytes read: the property
\* that 1568 bytes were received does not hold of it.
handshake_read_any_length(conn, chunk, n) ==
    IF n = 0 THEN Ended("returned", "")
    ELSE handshake_done([conn EXCEPT !.n = n],
                        decapsulate(ct_buffer(chunk, n), conn.server_keys))

\* connection.rs:40-59  the read of n bytes of chunk returned.
handshake_read(conn, chunk, n) ==
    IF n = 0 THEN Ended("returned", "")
    ELSE IF n # CIPHERTEXT_BYTES
         THEN Ended("failed", "Expected 1568 bytes for ciphertext")
    ELSE handshake_done([conn EXCEPT !.n = n],
                        decapsulate(ct_buffer(chunk, n), conn.server_keys))

\* What the server leaves alone outside execute.
pager_state == <<file, total_pages, master_key, index, rng>>
engine_state ==
    <<overflow_checks, panicked, root_id, inserted, dups, result, history>>

\* main.rs:39-52 and connection.rs:20-35  listener.accept() and
\* tokio::spawn(handle_socket), for the connection a client opened with
\* TcpStream::connect (network.rs:18); the task, in the state Handshake,
\* generates its keypair and writes the public key.
Accept(t) ==
    /\ conns[t].pc = "none"
    /\ \A u \in Tasks : u < t => conns[u].pc # "none"
    /\ entropy' = entropy + 1
    /\ conns' = [conns EXCEPT ![t].pc = "read_ct",
                              ![t].state = "Handshake",
                              ![t].server_keys = generate(entropy)]
    /\ to_client' = [to_client EXCEPT
                        ![t] = Append(@, PublicKey(generate(entropy)))]
    /\ clients' = [clients EXCEPT ![t].pc = "connect"]
    /\ UNCHANGED <<lock, to_server, pager_state, engine_state>>

\* Whether a write_all to connection t can return Ok: always while the
\* client is there, and either way once it has gone.
WriteOutcomes(t) == IF clients[t].pc = "closed" THEN {TRUE, FALSE} ELSE {TRUE}

\* A read on connection t returns 0: nothing is left on the wire and the
\* client has closed it.
EndOfStream(t) == to_server[t] = <<>> /\ clients[t].pc = "closed"

\* connection.rs:39-59  socket.read(&mut ct_buffer) returns.
ReadCiphertext(t) ==
    /\ conns[t].pc = "read_ct"
    /\ \/ /\ EndOfStream(t)
          /\ conns' = [conns EXCEPT ![t] = handshake_read(@, RandomBytes, 0)]
          /\ UNCHANGED to_server
       \/ /\ to_server[t] # <<>>
          /\ \E n \in ReadSizes(Head(to_server[t]).len, CIPHERTEXT_BYTES) :
                conns' = [conns EXCEPT
                             ![t] = handshake_read(@, Head(to_server[t]), n)]
          /\ to_server' = [to_server EXCEPT ![t] = Tail(@)]
    /\ UNCHANGED <<lock, clients, to_client, entropy, pager_state,
                   engine_state>>

\* A read of 0 bytes that is taken for an error: the property that a
\* disconnect ends the task without error does not hold of it.
request_read_eof_fails(conn, text, n) ==
    IF n = 0 THEN Ended("failed", "unexpected end of stream")
    ELSE [conn EXCEPT !.pc = "lock", !.request = text]

\* connection.rs:66-76  the read of n bytes returned: 0 bytes end the
\* task, and the bytes of a request are taken as its text, undecrypted.
request_read(conn, text, n) ==
    IF n = 0 THEN Ended("returned", "")
    ELSE [conn EXCEPT !.pc = "lock", !.request = text]

\* connection.rs:66-76  socket.read(&mut buffer) returns.
ReadRequest(t) ==
    /\ conns[t].pc = "read_req"
    /\ \/ /\ EndOfStream(t)
          /\ conns' = [conns EXCEPT ![t] = request_read(@, <<>>, 0)]
          /\ UNCHANGED to_server
       \/ /\ to_server[t] # <<>>
          /\ \E n \in ReadSizes(Head(to_server[t]).len, BUFFER_SIZE) :
                conns' = [conns EXCEPT
                             ![t] = request_read(@, Head(to_server[t]).text,
                                                 n)]
          /\ to_server' = [to_server EXCEPT ![t] = Tail(@)]
    /\ UNCHANGED <<lock, clients, to_client, entropy, pager_state,
                   engine_state>>

\* A Mutex that lets a task in while another holds the guard: the property
\* that one task holds the Pager does not hold of it.
lock_free_always(holders) == TRUE

\* connection.rs:82  db.lock().await returns when no task holds the guard.
lock_free(holders) == holders = {}

AcquireLock(t) ==
    /\ conns[t].pc = "lock"
    /\ lock_free(lock)
    /\ lock' = lock \cup {t}
    /\ conns' = [conns EXCEPT ![t].pc = "execute", ![t].at_lock = <<Pager>>]
    /\ UNCHANGED <<clients, to_server, to_client, entropy, pager_state,
                   engine_state>>

\* executor.rs:20-100  whether execute(sql) comes to write_document_to_disk
ComesToWrite(sql) ==
    /\ sql.parsed /\ Len(sql.ast) > 0 /\ sql.ast[1].kind = "Insert"
    /\ sql.ast[1].source.some /\ sql.ast[1].source.v.body = "Values"
    /\ Len(sql.ast[1].columns) <= Len(sql.ast[1].source.v.row_values)

\* A guard that is kept over the write of the reply: the property that
\* the lock is held during execute only does not hold of it.
guard_kept(holders, t) == holders

\* connection.rs:89  engine_lock goes out of scope at the end of the block
\* (and is dropped by the unwinding of a panic).
guard_dropped(holders, t) == holders \ {t}

\* connection.rs:85-89  execute returned r (or panicked): the guard is
\* dropped and the reply is formatted.
Replied(t, r, uuid) ==
    /\ SetPager(r.p)
    /\ lock' = guard_dropped(lock, t)
    /\ conns' = [conns EXCEPT
                    ![t] = IF r.panic THEN Ended("panicked", "")
                           ELSE [@ EXCEPT !.pc = "write",
                                          !.uuid = uuid,
                                          !.stored = <<>>,
                                          !.response =
                                              <<[prefix |-> response(r),
                                                 out |-> r.out]>>]]
    /\ UNCHANGED <<clients, to_server, to_client, entropy, engine_state>>

\* connection.rs:83-85 with executor.rs:20-100  execute(&request_str) up to
\* the return of write_document_to_disk, or to its end when the statement
\* does not come that far or the write failed.
ExecuteBegin(t) ==
    /\ conns[t].pc = "execute"
    /\ LET sql == conns[t].request[1]
       IN  \E uuid \in UuidsDrawn(sql) :
              IF /\ ComesToWrite(sql)
                 /\ write_document_to_disk(
                        Pager,
                        DocumentOf(sql.ast[1].columns,
                                   sql.ast[1].source.v.row_values, uuid),
                        overflow_checks).ok
              THEN /\ SetPager(write_document_to_disk(
                                   Pager,
                                   DocumentOf(sql.ast[1].columns,
                                              sql.ast[1].source.v.row_values,
                                              uuid),
                                   overflow_checks).p)
                   /\ conns' = [conns EXCEPT
                                   ![t].pc = "store",
                                   ![t].uuid = uuid,
                                   ![t].stored =
                                       <<[write_document_to_disk(
                                              Pager,
                                              DocumentOf(
                                                  sql.ast[1].columns,
                                                  sql.ast[1].source.v.row_values,
                                                  uuid),
                                              overflow_checks)
                                          EXCEPT !.p = 0]>>]
                   /\ UNCHANGED <<lock, clients, to_server, to_client,
                                  entropy, engine_state>>
              ELSE Replied(t, execute(Pager, sql, uuid, overflow_checks), uuid)

\* executor.rs:103-111  index.insert and sync_index on the Pager as it is
\* now, then the return of execute.
ExecuteEnd(t) ==
    /\ conns[t].pc = "store"
    /\ Replied(t, insert_stored([conns[t].stored[1] EXCEPT !.p = Pager],
                                overflow_checks),
               conns[t].uuid)

\* connection.rs:93  socket.write_all(response) returns, and the loop comes
\* back to the read of the next request.  A client that waits in the read
\* of send_query (network.rs:62-66) has the reply.
WriteResponse(t) ==
    /\ conns[t].pc = "write"
    /\ \E ok \in WriteOutcomes(t) :
          IF ok
          THEN /\ conns' = [conns EXCEPT ![t].pc = "read_req",
                                         ![t].request = <<>>,
                                         ![t].response = <<>>]
               /\ clients' = [clients EXCEPT
                                 ![t] = IF @.pc = "wait"
                                        THEN [@ EXCEPT !.pc = "ready",
                                                       !.received = @ + 1]
                                        ELSE @]
          ELSE /\ conns' = [conns EXCEPT ![t] = Ended("failed", "write_all")]
               /\ UNCHANGED clients
    /\ UNCHANGED <<lock, to_server, to_client, entropy, pager_state,
                   engine_state>>

\* network.rs:15-48  AuraClient::connect: read the public key, encapsulate
\* to it with the client's own random draw, write the ciphertext, keep the
\* shared secret.
Connect(c) ==
    /\ clients[c].pc = "connect"
    /\ conns[c].pc \notin Gone
    /\ to_client[c] # <<>>
    /\ encapsulate(to_client[c][1], c).ok
    /\ clients' = [clients EXCEPT
                      ![c].pc = "ready",
                      ![c].session_key =
                          encapsulate(to_client[c][1], c).val.shared_secret]
    /\ to_server' = [to_server EXCEPT
                        ![c] = Append(@, encapsulate(to_client[c][1],
                                                    c).val.ciphertext)]
    /\ to_client' = [to_client EXCEPT ![c] = Tail(@)]
    /\ UNCHANGED <<conns, lock, entropy, pager_state, engine_state>>

\* A client that is not AuraClient answers the public key with bytes of
\* its own.
HandshakeInputs == {RandomBytes, ShortBytes}
SendBytes(c, bytes) ==
    /\ clients[c].pc = "connect"
    /\ conns[c].pc \notin Gone
    /\ clients' = [clients EXCEPT ![c].pc = "ready"]
    /\ to_server' = [to_server EXCEPT ![c] = Append(@, bytes)]
    /\ UNCHANGED <<conns, lock, to_client, entropy, pager_state,
                   engine_state>>

\* How many requests the clients have sent.
RECURSIVE SentBy(_)
SentBy(cs) ==
    IF cs = {} THEN 0
    ELSE LET c == CHOOSE x \in cs : TRUE
         IN  clients[c].sent + SentBy(cs \ {c})

\* network.rs:51-59  send_query writes the text of the query and waits for
\* the reply.
SendQuery(c, sql) ==
    /\ clients[c].pc = "ready"
    /\ conns[c].pc \notin Gone
    /\ SentBy(Tasks) < MaxRequests
    /\ clients' = [clients EXCEPT ![c].sent = @ + 1, ![c].pc = "wait"]
    /\ to_server' = [to_server EXCEPT ![c] = Append(@, Bytes(64, 0, 0, <<sql>>))]
    /\ UNCHANGED <<conns, lock, to_client, entropy, pager_state,
                   engine_state>>

\* The client drops its stream, at any time.
Disconnect(c) ==
    /\ clients[c].pc \in {"connect", "ready", "wait"}
    /\ conns[c].pc \notin Gone
    /\ clients' = [clients EXCEPT ![c].pc = "closed"]
    /\ UNCHANGED <<conns, lock, to_server, to_client, entropy, pager_state,
                   engine_state>>

\* INSERT INTO users (id, name) VALUES ('user_007'): more columns than
\* values.
ShortRowText ==
    Sql(<<InsertStatement(<<"id", "name">>,
                          Values(<<SingleQuotedString(target_id)>>))>>)

\* The requests sent: an INSERT, the INSERT with a value missing, a SELECT
\* and an UPDATE.
Requests ==
    {Sql(<<InsertStatement(<<"id", "name">>,
                           Values(<<SingleQuotedString(target_id),
                                    SingleQuotedString(2)>>))>>),
     ShortRowText,
     Sql(<<[kind |-> "Query", pk |-> target_id]>>),
     Sql(<<[kind |-> "Update"]>>)}

NextServer ==
    \/ \E t \in Tasks : Accept(t)
    \/ \E t \in Tasks : ReadCiphertext(t)
    \/ \E t \in Tasks : ReadRequest(t)
    \/ \E t \in Tasks : AcquireLock(t)
    \/ \E t \in Tasks : ExecuteBegin(t)
    \/ \E t \in Tasks : ExecuteEnd(t)
    \/ \E t \in Tasks : WriteResponse(t)
    \/ \E c \in Tasks : Connect(c)
    \/ \E c \in Tasks : \E bytes \in HandshakeInputs : SendBytes(c, bytes)
    \/ \E c \in Tasks : \E sql \in Requests : SendQuery(c, sql)
    \/ \E c \in Tasks : Disconnect(c)

SpecServer == InitEngine /\ [][NextServer]_vars

(***************************************************************************)
(* The tree as it is stored: every page written in the B-tree              *)
(* specifications holds a node.                                            *)
(***************************************************************************)
StoredIds == {o \div ENCRYPTED_PAGE_SIZE : o \in DOMAIN file}
NodeAt(id) == read_node(Pager, id).val
StoredNodes == {NodeAt(id) : id \in StoredIds}
SeqSet(s) == {s[i] : i \in 1..Len(s)}

RECURSIVE KeysUnder(_)
KeysUnder(id) ==
    LET n == NodeAt(id)
    IN  IF n.node_type = "Leaf"
        THEN SeqSet(n.keys)
        ELSE SeqSet(n.keys) \cup UNION {KeysUnder(c) : c \in SeqSet(n.children)}

RECURSIVE Height(_)
Height(id) ==
    LET n == NodeAt(id)
    IN  IF n.node_type = "Leaf" THEN 1 ELSE 1 + Height(n.children[1])

RootFull == LET r == read_node(Pager, root_id) IN r.ok /\ is_full(r.val)

C2_NodeShape ==
    \A n \in StoredNodes :
        /\ Len(n.keys) <= NODE_CAPACITY
        /\ n.node_type = "Internal" => Len(n.children) = Len(n.keys) + 1
        /\ n.node_type = "Leaf" => Len(n.children) = Len(n.keys)

\* C2 witness: a full Leaf and a full Internal node are stored.
C2_Witness ==
    /\ \E n \in StoredNodes : n.node_type = "Leaf" /\ Len(n.keys) = NODE_CAPACITY
    /\ \E n \in StoredNodes :
          n.node_type = "Internal" /\ Len(n.keys) = NODE_CAPACITY

\* C3: after any sequence of inserts, including an insert of a key already
\* present, the keys of every node are strictly increasing.
C3_KeysStrictlySorted ==
    \A n \in StoredNodes :
        \A i, j \in 1..Len(n.keys) : i < j => n.keys[i] < n.keys[j]

\* C4 as stated: for every Internal node and every i, the keys under
\* children[i] are <= keys[i] and the keys under children[i+1] are strictly
\* greater than keys[i].
C4_SeparatorStrict ==
    \A n \in StoredNodes :
        n.node_type = "Internal" =>
            \A i \in 1..Len(n.keys) :
                /\ \A k \in KeysUnder(n.children[i]) : k <= n.keys[i]
                /\ \A k \in KeysUnder(n.children[i + 1]) : k > n.keys[i]

\* C4 amended: for every Internal node and every i, the keys under
\* children[i] are <= keys[i] and the keys under children[i+1] are >=
\* keys[i]; right after a leaf split the separator copied up is the first
\* key of the sibling, so it is in the subtree to its right.
C4_SeparatorOrder ==
    /\ \A n \in StoredNodes :
          n.node_type = "Internal" =>
              \A i \in 1..Len(n.keys) :
                  /\ \A k \in KeysUnder(n.children[i]) : k <= n.keys[i]
                  /\ \A k \in KeysUnder(n.children[i + 1]) : k >= n.keys[i]
    /\ (result.op = "insert" /\ result.split.done
        /\ result.split.sibling.val.node_type = "Leaf") =>
           result.split.new_root.val.keys[1] = result.split.sibling.val.keys[1]

\* C4 witness: a leaf split has copied a key up, and some Internal node
\* holds a separator that is also a key of the subtree to its right.
C4_Witness ==
    /\ result.op = "insert" /\ result.split.done
    /\ result.split.sibling.val.node_type = "Leaf"
    /\ \E n \in StoredNodes :
          /\ n.node_type = "Internal"
          /\ \E i \in 1..Len(n.keys) : n.keys[i] \in KeysUnder(n.children[i + 1])

RootSplitOk(split) ==
    /\ split.done
    /\ split.new_root.ok /\ split.old_root.ok /\ split.sibling.ok
    /\ split.new_root.val.node_type = "Internal"
    /\ Len(split.new_root.val.keys) = 1
    /\ Len(split.new_root.val.children) = 2
    /\ split.new_root.val.parent = None
    /\ split.old_root.val.parent = Some(split.new_root_id)
    /\ split.sibling.val.parent = Some(split.new_root_id)

\* C5: when insert finds the root full, the root split leaves a new root
\* that is Internal with one key, two children and no parent, the old root
\* and the sibling have the new root as parent, and root_id becomes the
\* new root's page id; root_id changes in no other step.
C5_RootSplit ==
    [][ /\ RootFull =>
             /\ RootSplitOk(result'.split)
             /\ root_id' = result'.split.new_root_id
             /\ root_id' # root_id
        /\ ~RootFull => root_id' = root_id ]_vars

\* C5 witness: an insert has split a root that was an Internal node.
C5_Witness ==
    /\ result.op = "insert" /\ result.split.done
    /\ result.split.old_root.val.node_type = "Internal"
    /\ root_id = result.split.new_root_id

(***************************************************************************)
(* The Pager's properties.                                                 *)
(***************************************************************************)
SamePage(a, b) ==
    /\ a.id = b.id
    /\ a.page_type = b.page_type
    /\ a.used_space = b.used_space
    /\ a.next_page = b.next_page
    /\ a.data = b.data

\* C6: after any sequence of write_page calls on one Pager, read_page(id)
\* for an id that was written returns a page equal in id, page_type,
\* used_space, next_page and data to the page most recently written with
\* that id.
C6_ReadReturnsWritten ==
    ~panicked =>
        \A id \in DOMAIN written :
            LET r == read_page(Pager, id)
            IN  r.ok /\ SamePage(r.val, written[id].page)

\* The records write_page has produced under a key.
ProducedUnder(key) == {rec \in produced : rec.ct.k = key}

\* C7 as stated: when the record of a written page is no longer the record
\* write_page wrote, or the Pager's master key is not the key it was
\* written under, read_page(id) fails with Tampered(id).
C7_AnyChangeDetected ==
    \A id \in DOMAIN written :
        LET cur == ReadAt(file, PageOffset(id))
        IN  (cur # written[id].enc \/ master_key # written[id].enc.ct.k) =>
                read_page(Pager, id) = Err("Tampered", id) @@ [io |-> TRUE]

\* C7 amended: when the record on disk for an id below total_pages is not
\* a record that write_page produced under the Pager's master key (bytes
\* of its nonce, ciphertext or tag were changed, or it was written under
\* another key), read_page(id) fails with Tampered(id); read_page returns
\* a page only from a record produced under the master key.
C7_TamperDetected ==
    \A id \in SmallIds :
        LET cur == ReadAt(file, PageOffset(id))
            r == read_page(Pager, id)
        IN  /\ (/\ id < total_pages
                /\ PageOffset(id) + ENCRYPTED_PAGE_SIZE <= FileLen(file)
                /\ cur \notin ProducedUnder(master_key)) =>
                    r = Err("Tampered", id) @@ [io |-> TRUE]
            /\ r.ok => cur \in ProducedUnder(master_key)

\* C7 witness: the record of a written page was changed on disk and
\* read_page fails with Tampered; another written page, untouched, is
\* still read.
C7_Witness ==
    /\ result.op = "tamper"
    /\ LET id == result.id
           cur == ReadAt(file, PageOffset(id))
           r == read_page(Pager, id)
       IN  /\ id \in DOMAIN written
           /\ cur # written[id].enc
           /\ ~r.ok /\ r.err = <<"Tampered", id>>
    /\ \E other \in DOMAIN written : read_page(Pager, other).ok

\* C8: read_page(id) with id >= total_pages returns PageNotFound(id)
\* without reading the file; total_pages and the index stay as they were.
C8_PageNotFound ==
    \A id \in PageIds :
        id >= total_pages =>
            read_page(Pager, id) = Err("PageNotFound", id) @@ [io |-> FALSE]

\* C8 witness: pages have been written, and an id at total_pages and one
\* beyond it are answered with PageNotFound.
C8_Witness ==
    /\ written # <<>>
    /\ total_pages = 2
    /\ total_pages \notin DOMAIN written
    /\ ~read_page(Pager, total_pages).ok
    /\ read_page(Pager, total_pages).err = <<"PageNotFound", total_pages>>
    /\ read_page(Pager, U32_MAX).err = <<"PageNotFound", U32_MAX>>

\* C9: allocate_page returns total_pages (1 when total_pages is 0) and
\* sets total_pages to the id plus one; the id is never 0, never an id it
\* returned before and never an id already written, in any interleaving
\* with write_page and sync_index.
C9_AllocateFresh ==
    [][ (result'.op = "allocate_page" /\ calls' = calls + 1) =>
            /\ result'.ok
            /\ result'.id = (IF total_pages = 0 THEN 1 ELSE total_pages)
            /\ total_pages' = result'.id + 1
            /\ result'.id # 0
            /\ result'.id \notin SeqSet(alloc_log)
            /\ result'.id \notin DOMAIN written ]_vars

\* C10: write_page(page) writes one record of 4136 bytes at offset
\* page.id * 4136 and nothing else, sets total_pages to page.id + 1 when
\* page.id >= total_pages and leaves it otherwise; total_pages never
\* decreases.
C10_WriteGrowsTotal ==
    [][ /\ (result'.op = "write_page" /\ calls' = calls + 1) =>
              LET id == result'.page.id
              IN  /\ result'.ok
                  /\ ENCRYPTED_PAGE_SIZE = 4136
                  /\ DOMAIN file' = DOMAIN file \cup {id * 4136}
                  /\ \A o \in DOMAIN file : o # id * 4136 => file'[o] = file[o]
                  /\ total_pages' = (IF id >= total_pages THEN id + 1
                                     ELSE total_pages)
        /\ total_pages' >= total_pages ]_vars

(***************************************************************************)
(* Pager::open and sync_index.                                             *)
(***************************************************************************)
\* C11: Pager::open fails when the length of the file is not a multiple
\* of 4136 bytes.
C11_OpenRejectsRaggedFile ==
    (result.op = "open" /\ result.len % 4136 # 0) => ~result.ok

\* What page 0 of file f holds for the key: the page, when the file has
\* a whole record at offset 0 and it is one of `recs`, the records
\* write_page has produced, made under the key.
PageZero(f, key, recs) ==
    IF FileLen(f) < ENCRYPTED_PAGE_SIZE THEN [ok |-> FALSE]
    ELSE IF ReadAt(f, 0) \notin {rec \in recs : rec.ct.k = key}
         THEN [ok |-> FALSE]
    ELSE [ok |-> TRUE, val |-> PageFromImage(ReadAt(f, 0).ct.pt)]

\* The index in a page, when the page is of kind Index and its payload
\* decodes.
IndexIn(page) ==
    IF ~page.ok THEN [ok |-> FALSE]
    ELSE IF page.val.page_type # 2 THEN [ok |-> FALSE]
    ELSE index_from_bytes(SliceOfData(page.val.data, page.val.used_space))

\* C12: Pager::open succeeds and leaves the file as it is; when page 0
\* exists, decrypts, is of kind Index and its payload decodes, the index is
\* the one decoded from it, and in every other case the index is empty and
\* not dirty.
C12_OpenLoadsIndex ==
    [][ (result'.op = "open" /\ calls' = calls + 1) =>
            /\ result'.ok
            /\ file' = file
            /\ index' = (IF IndexIn(PageZero(file, master_key', produced)).ok
                         THEN IndexIn(PageZero(file, master_key', produced)).val
                         ELSE PrimaryIndexNew) ]_vars

\* C13: sync_index changes nothing when the index is not dirty; when the
\* index is dirty and its encoding fits a page, page 0 is written with kind
\* Index and used_space equal to the length of the encoding, and the dirty
\* flag is cleared.
C13_SyncIndex ==
    [][ (result'.op = "sync_index" /\ calls' = calls + 1) =>
            /\ ~index.dirty =>
                  /\ result'.ok
                  /\ file' = file /\ total_pages' = total_pages
                  /\ index' = index
            /\ (index.dirty /\ index_to_bytes(index).len <= DATA_SIZE) =>
                  /\ result'.ok
                  /\ PageZero(file', master_key, produced').ok
                  /\ ReadAt(file', 0) # ReadAt(file, 0)
                  /\ PageZero(file', master_key, produced').val.id = 0
                  /\ PageZero(file', master_key, produced').val.page_type = 2
                  /\ PageZero(file', master_key, produced').val.used_space
                        = index_to_bytes(index).len
                  /\ index' = [index EXCEPT !.dirty = FALSE] ]_vars

\* C13 witness: a dirty index whose encoding is exactly DATA_SIZE bytes was
\* synced: page 0 is an Index page and the index is clean.
C13_Witness ==
    /\ result.op = "sync_index" /\ result.ok
    /\ FitKey \in DOMAIN index.map
    /\ ~index.dirty
    /\ PageZero(file, master_key, produced).ok
    /\ PageZero(file, master_key, produced).val.used_space = DATA_SIZE

\* C15: when the encoded index is larger than 3997 bytes, sync_index
\* returns an error, leaves the file as it is, leaves the dirty flag set
\* and leaves total_pages unchanged.
C15_SyncTooBigFailsCleanly ==
    [][ (/\ result'.op = "sync_index" /\ calls' = calls + 1
         /\ index.dirty /\ index_to_bytes(index).len > 3997) =>
            /\ ~result'.ok
            /\ file' = file
            /\ index' = index
            /\ total_pages' = total_pages ]_vars

(***************************************************************************)
(* The query engine.                                                       *)
(***************************************************************************)
\* A step of execute, of a SELECT text, of an INSERT ... VALUES text.
ExecuteStep == result'.op = "execute" /\ calls' = calls + 1
IsSelect(sql) ==
    sql.parsed /\ Len(sql.ast) > 0 /\ sql.ast[1].kind = "Query"
IsInsertValues(sql) ==
    /\ sql.parsed /\ Len(sql.ast) > 0 /\ sql.ast[1].kind = "Insert"
    /\ sql.ast[1].source.some /\ sql.ast[1].source.v.body = "Values"

\* C14: in a run of executor statements and B-tree inserts whose page ids
\* come from allocate_page, page 0 is written by sync_index alone: the id
\* of a page allocated for a document is not 0, execute changes the record
\* at offset 0 only into the Index page of the index it leaves, the root of
\* a new tree is not page 0, and a B-tree insert leaves the record at offset
\* 0 as it is and its root at a page that is not 0.
C14_PageZeroOnlyBySync ==
    [][ /\ ExecuteStep =>
              /\ result'.alloc.some => result'.alloc.v # 0
              /\ ReadAt(file', 0) # ReadAt(file, 0) =>
                    /\ result'.ok
                    /\ PageZero(file', master_key, produced').ok
                    /\ PageZero(file', master_key, produced').val.page_type = 2
                    /\ PageZero(file', master_key, produced').val.data.body
                          = index_to_bytes(index')
        /\ (result'.op = "new" /\ calls' = calls + 1) =>
              /\ root_id' # 0
              /\ ReadAt(file', 0) = ReadAt(file, 0)
        /\ calls' = calls =>
              /\ root_id' # 0
              /\ ReadAt(file', 0) = ReadAt(file, 0) ]_vars

\* C14 witness: a document was inserted, page 0 holds the index, and a
\* B-tree insert has split the root.
C14_Witness ==
    /\ result.op = "insert" /\ result.ok /\ result.split.done
    /\ Len(alloc_log) > 0
    /\ PageZero(file, master_key, produced).ok
    /\ PageZero(file, master_key, produced).val.page_type = 2

\* The strings that are keys of the index in some state.
AllKeys == 0..(MaxKey + 5)

\* The document id in the page written at page id `id`.
DocIdAt(id) == written[id].page.data.body.bytes[1]

\* C16: index.insert sets or replaces and marks the index dirty: get(k) is
\* the page id of the most recent insert for k and None for a key never
\* inserted, and after a successful INSERT the index maps the id of the
\* document to the page written by that INSERT, also when the id was
\* inserted before.
C16_IndexSetOrReplace ==
    [][ /\ \A k \in AllKeys :
              index_get(index', k) = (IF k \in DOMAIN indexed'
                                      THEN Some(indexed'[k]) ELSE None)
        /\ (result'.op = "index.insert" /\ calls' = calls + 1) =>
              index'.dirty
        /\ (ExecuteStep /\ IsInsertValues(result'.sql) /\ result'.ok) =>
              index_get(index', result'.out.id) = Some(result'.alloc.v) ]_vars

\* C16 witness: two INSERT statements with the same id succeeded, and the
\* index maps the id to the page of the second.
C16_Witness ==
    /\ result.op = "execute" /\ result.ok
    /\ IsInsertValues(result.sql)
    /\ result.out.id = target_id
    /\ \E i \in DOMAIN alloc_log :
          /\ i < Len(alloc_log)
          /\ alloc_log[i] # alloc_log[Len(alloc_log)]
          /\ DocIdAt(alloc_log[i]) = result.out.id
    /\ result.alloc = Some(alloc_log[Len(alloc_log)])
    /\ index_get(index, result.out.id) = result.alloc

\* The keys k for which the index points at the page of the document that
\* an INSERT stored with id k.
StoredKeys ==
    {k \in DOMAIN index.map :
        /\ index.map[k] \in DOMAIN written
        /\ index.map[k] # 0
        /\ DocIdAt(index.map[k]) = k}

\* C17: after a successful INSERT of a document with id X, a SELECT whose
\* WHERE literal is X returns the document with id X, and a SELECT never
\* returns a document whose id is not its WHERE literal.
C17_SelectByWhereLiteral ==
    [][ (ExecuteStep /\ IsSelect(result'.sql)) =>
            /\ result'.sql.ast[1].pk \in StoredKeys =>
                  /\ result'.ok
                  /\ result'.out.msg = "Found"
                  /\ result'.out.doc.id = result'.sql.ast[1].pk
            /\ (result'.ok /\ result'.out.msg = "Found") =>
                  result'.out.doc.id = result'.sql.ast[1].pk ]_vars

\* The string a literal denotes: the text of a quoted string, the decimal
\* digits of a number.
DecimalText(n) == MaxKey + 10 + n
IdText(lit) ==
    IF lit.t = "SingleQuotedString" THEN lit.s ELSE DecimalText(lit.n)

\* The value given for the id column of an INSERT, if it has one.
IdColumn(statement) ==
    IF \E i \in 1..Len(statement.columns) : statement.columns[i] = "id"
    THEN Some(IdText(statement.source.v.row_values[
                         CHOOSE i \in 1..Len(statement.columns) :
                             statement.columns[i] = "id"]))
    ELSE None

\* C18: an INSERT with a column named id stores a document whose id is the
\* value given for that column, a quoted string or a number, and puts that
\* value into the index as the key of the page written; an id is generated
\* only when there is no id column.
C18_IdFromColumn ==
    [][ (ExecuteStep /\ IsInsertValues(result'.sql) /\ result'.ok) =>
            IF IdColumn(result'.sql.ast[1]).some
            THEN /\ result'.doc.id = IdColumn(result'.sql.ast[1]).v
                 /\ index_get(index', IdColumn(result'.sql.ast[1]).v)
                       = result'.alloc
            ELSE result'.doc.id \in Uuids ]_vars

\* C19: a SELECT whose key is not in the index returns the message "not
\* found" as a success, answered with the OK prefix, and every SELECT leaves
\* the file, total_pages and the index with its dirty flag as they are.
C19_SelectNotFound ==
    [][ (ExecuteStep /\ IsSelect(result'.sql)) =>
            /\ result'.sql.ast[1].pk \notin DOMAIN index.map =>
                  /\ result'.ok
                  /\ result'.out.msg = "Document not found"
                  /\ result'.response = "OK"
            /\ file' = file
            /\ total_pages' = total_pages
            /\ index' = index ]_vars

\* C20: execute of a statement that is neither INSERT nor SELECT, and of
\* the empty text, fails with the Unimplemented error, allocates and writes
\* no page and leaves the index as it is.
C20_OthersUnimplemented ==
    [][ (/\ ExecuteStep
         /\ result'.sql.parsed
         /\ \/ Len(result'.sql.ast) = 0
            \/ result'.sql.ast[1].kind \notin {"Insert", "Query"}) =>
            /\ ~result'.ok
            /\ result'.out.error = "Unimplemented"
            /\ ~result'.alloc.some
            /\ alloc_log' = alloc_log
            /\ file' = file
            /\ total_pages' = total_pages
            /\ index' = index ]_vars

\* C20 witness: on a database that holds a document, an UPDATE or DELETE
\* statement, or the empty text, was answered with Unimplemented.
C20_Witness ==
    /\ result.op = "execute"
    /\ result.sql.parsed
    /\ \/ Len(result.sql.ast) = 0
       \/ result.sql.ast[1].kind \in {"Update", "Delete"}
    /\ ~result.ok /\ result.out.error = "Unimplemented"
    /\ DOMAIN index.map # {}
    /\ Len(alloc_log) > 0

\* The length of the encoding of the document an INSERT ... VALUES builds.
DocumentLen(statement) ==
    doc_to_bytes(DocumentOf(statement.columns, statement.source.v.row_values,
                            CHOOSE uuid \in Uuids : TRUE)).len

\* C21: an INSERT whose encoded document is longer than 3997 bytes fails
\* with the Serialization error before a page is allocated: total_pages,
\* the file and the index are as they were before the statement.
C21_TooLargeLeavesPager ==
    [][ (/\ ExecuteStep /\ IsInsertValues(result'.sql)
         /\ DocumentLen(result'.sql.ast[1]) > 3997) =>
            /\ ~result'.ok
            /\ result'.out.error = "Serialization"
            /\ ~result'.alloc.some
            /\ total_pages' = total_pages
            /\ file' = file
            /\ index' = index ]_vars

\* C21 witness: on a database that holds a document, an INSERT of a
\* document of 3998 bytes was answered with the Serialization error.
C21_Witness ==
    /\ result.op = "execute" /\ IsInsertValues(result.sql)
    /\ DocumentLen(result.sql.ast[1]) = DATA_SIZE + 1
    /\ ~result.ok /\ result.out.error = "Serialization"
    /\ total_pages > 0 /\ DOMAIN index.map # {}

\* Task t takes a step.
Steps(t) == conns'[t] # conns[t]

\* C22: every connection starts in Handshake and becomes Authenticated
\* only after the server has written its public key of 1568 bytes and has
\* then read exactly 1568 bytes that decapsulate with Ok; once
\* Authenticated it is never in Handshake again; and while it is in
\* Handshake its task runs no query and does not take the Pager lock.
C22_HandshakeThenAuthenticated ==
    /\ [](\A t \in Tasks :
            /\ conns[t].pc = "none" => conns[t].state = "Handshake"
            /\ conns[t].state = "Authenticated" =>
                   /\ conns[t].server_keys # 0
                   /\ conns[t].n = 1568
                   /\ conns[t].session_key # NoSecret
            /\ conns[t].state = "Handshake" =>
                   /\ t \notin lock
                   /\ conns[t].pc \in {"none", "read_ct"}
                   /\ conns[t].request = <<>>)
    /\ [][\A t \in Tasks :
            /\ (conns[t].pc = "none" /\ Steps(t)) =>
                   /\ conns'[t].state = "Handshake"
                   /\ to_client'[t] = <<PublicKey(conns'[t].server_keys)>>
                   /\ PublicKey(conns'[t].server_keys).len = 1568
            /\ (conns[t].state = "Handshake"
                    /\ conns'[t].state = "Authenticated") =>
                   /\ conns[t].pc = "read_ct"
                   /\ conns[t].server_keys = conns'[t].server_keys
                   /\ to_server[t] # <<>>
                   /\ Head(to_server[t]).len = 1568
                   /\ conns'[t].n = 1568
                   /\ decapsulate(Head(to_server[t]),
                                  conns[t].server_keys).ok
                   /\ conns'[t].session_key =
                          decapsulate(Head(to_server[t]),
                                      conns[t].server_keys).val
            /\ conns[t].state = "Authenticated" =>
                   conns'[t].state # "Handshake"
            /\ (conns[t].state = "Handshake" /\ Steps(t)) =>
                   /\ pager_state' = pager_state
                   /\ lock' = lock ]_vars

\* C22 witness: a task that is Authenticated has run a query under the
\* lock while the other task is still in Handshake.
C22_Witness ==
    \E t, u \in Tasks :
        /\ conns[t].state = "Authenticated" /\ conns[t].pc = "write"
        /\ conns[u].state = "Handshake" /\ conns[u].pc = "read_ct"

\* Whether bytes are what encapsulate returned for the public key of
\* keypair k.
IsEncapsulation(bytes, k) ==
    bytes.len = CIPHERTEXT_BYTES /\ bytes.k = k /\ bytes.r # 0

\* C23: when the client answers the public key with 1568 bytes that are
\* not an encapsulation to it, the task ends with a handshake error, is
\* never Authenticated, and the database file stays as it is.
C23_InvalidCiphertextFails ==
    /\ [][\A t \in Tasks :
            (/\ conns[t].pc = "read_ct" /\ Steps(t)
             /\ to_server[t] # <<>>
             /\ Head(to_server[t]).len = 1568
             /\ ~IsEncapsulation(Head(to_server[t]), conns[t].server_keys)) =>
                /\ conns'[t].pc = "failed"
                /\ file' = file ]_vars
    /\ [](\A t \in Tasks :
            conns[t].state = "Authenticated" =>
                ~conns[t].session_key.implicit_rejection)

\* The file changes by a request of a connection whose key came from bytes
\* that were no encapsulation.
C23_FileAfterInvalidCiphertext ==
    [][\A t \in Tasks :
          (conns[t].session_key.implicit_rejection /\ Steps(t)) =>
              file' = file ]_vars

\* C24: whenever AuraClient::connect and the server's handshake have both
\* completed on a connection, the client's session key is the server's,
\* the secret decapsulate recovers from the client's ciphertext; and two
\* connections have different server keypairs.
C24_SameSessionKey ==
    /\ \A t \in Tasks :
          (/\ conns[t].state = "Authenticated"
           /\ clients[t].session_key # NoSecret) =>
              /\ conns[t].session_key = clients[t].session_key
              /\ conns[t].session_key =
                    decapsulate(Ciphertext(conns[t].server_keys,
                                           clients[t].session_key.r),
                                conns[t].server_keys).val
    /\ \A t, u \in Tasks :
          (t # u /\ conns[t].server_keys # 0 /\ conns[u].server_keys # 0) =>
              conns[t].server_keys # conns[u].server_keys

\* C24 witness: both connections are Authenticated with the keys their
\* clients hold.
C24_Witness ==
    \A t \in Tasks :
        /\ conns[t].state = "Authenticated"
        /\ clients[t].pc = "ready"
        /\ clients[t].session_key = SharedSecret(conns[t].server_keys, t)
        /\ conns[t].session_key = clients[t].session_key

\* What task t answers when execute(sql) returned r.
ReplyOf(r) == <<[prefix |-> response(r), out |-> r.out]>>

\* Task t, which took the lock on the Pager at_lock, ends its execute as
\* if it had run alone: the Pager and the reply are those of execute on
\* at_lock.
AsIfAlone(t) ==
    \E uuid \in UuidsDrawn(conns[t].request[1]) :
        LET r == execute(conns[t].at_lock[1], conns[t].request[1], uuid,
                         overflow_checks)
        IN  /\ Pager' = r.p
            /\ IF r.panic THEN conns'[t].pc = "panicked"
               ELSE conns'[t].pc = "write" /\ conns'[t].response = ReplyOf(r)

\* C25: at most one task holds the Pager at any time; the Pager changes
\* only by a step of the task that holds it; and each execute ends with
\* the Pager and the reply it would have produced alone on the Pager it
\* found when it took the lock.
C25_OneQueryAtATime ==
    /\ [](Cardinality(lock) <= 1)
    /\ [][/\ pager_state' # pager_state =>
                \E t \in lock : Steps(t)
          /\ \A t \in Tasks :
                (t \notin lock /\ t \in lock') =>
                    /\ conns'[t].at_lock = <<Pager>>
                    /\ pager_state' = pager_state
          /\ \A t \in Tasks :
                (t \in lock /\ t \notin lock') => AsIfAlone(t) ]_vars

\* C25 witness: one task is in the middle of an INSERT, its document
\* written and the index not yet, while the other task waits for the lock
\* with an INSERT of its own.
C25_Witness ==
    \E t, u \in Tasks :
        /\ t \in lock /\ conns[t].pc = "store"
        /\ conns[u].pc = "lock"
        /\ ComesToWrite(conns[u].request[1])

\* C26: a task holds the lock only during its execute call, never while
\* it waits for its socket in a read or a write; so a task that waits for
\* the lock can take it, or it is held by a task that is in execute, whose
\* steps wait for no client.
C26_LockOnlyDuringExecute ==
    /\ \A t \in Tasks :
          t \in lock <=> conns[t].pc \in {"execute", "store"}
    /\ \A t \in Tasks :
          conns[t].pc = "lock" =>
              \/ ENABLED AcquireLock(t)
              \/ \E u \in lock \ {t} : conns[u].pc \in {"execute", "store"}

\* C26 witness: a task waits in the read of the next request of a client
\* that sends nothing, and the other task holds the lock and runs its
\* query.
C26_Witness ==
    \E t, u \in Tasks :
        /\ conns[t].pc = "read_req" /\ to_server[t] = <<>>
        /\ clients[t].pc = "ready"
        /\ u \in lock /\ conns[u].pc = "execute"

\* C27: on an authenticated connection the requests are executed in the
\* order they were received; each request read produces exactly one
\* reply, written before the next request is read, with the prefix OK when
\* execute returned Ok and ERROR when it returned an error; and a failed
\* query does not close the connection.
C27_OneReplyPerRequest ==
    [][\A t \in Tasks :
          /\ (conns[t].pc = "read_req" /\ conns'[t].pc = "lock") =>
                /\ to_server[t] # <<>>
                /\ conns'[t].request = Head(to_server[t]).text
                /\ to_server'[t] = Tail(to_server[t])
          /\ (conns[t].pc # "read_req" /\ conns'[t].pc = "read_req") =>
                \/ conns[t].pc = "read_ct"
                \/ conns[t].pc = "write" /\ conns[t].response # <<>>
          /\ (t \in lock /\ t \notin lock') =>
                /\ conns'[t].pc = "write"
                /\ conns'[t].response # <<>>
                /\ conns'[t].response[1].prefix \in {"OK", "ERROR"}
          /\ (conns[t].pc = "write" /\ Steps(t)
                 /\ clients[t].pc # "closed") =>
                conns'[t].pc = "read_req" ]_vars

\* C28: no request makes a task panic: execute returns Ok or an error for
\* every text and the task replies.
C28_NoPanic == \A t \in Tasks : conns[t].pc # "panicked"

\* The part of C28 that holds: a task that has ended, by an error or by a
\* panic, holds no lock, so the other task can still take it.
C28_OthersGoOn ==
    \A t \in Tasks :
        conns[t].pc \in Gone =>
            /\ t \notin lock
            /\ \A u \in Tasks :
                  (conns[u].pc = "lock" /\ lock = {}) => ENABLED AcquireLock(u)

\* C29: when the client disconnects (a read of 0 bytes, in Handshake or
\* Authenticated) the task returns without error, its session state is
\* dropped, it does not hold the Pager lock, and every page written stays
\* as it is.
C29_DisconnectReturns ==
    [][\A t \in Tasks :
          (/\ conns[t].pc \in {"read_ct", "read_req"}
           /\ EndOfStream(t) /\ Steps(t)) =>
              /\ conns'[t].pc = "returned"
              /\ conns'[t].error = ""
              /\ conns'[t].session_key = NoSecret
              /\ conns'[t].state = "Dropped"
              /\ t \notin lock /\ t \notin lock'
              /\ pager_state' = pager_state ]_vars

\* C29 witness: the one task there is has returned after its client's
\* INSERT was stored, and the pages are in the file.
C29_Witness ==
    /\ conns[1].pc = "returned" /\ conns[2].pc = "none"
    /\ clients[1].pc = "closed"
    /\ total_pages = 2 /\ FileLen(file) = 2 * ENCRYPTED_PAGE_SIZE

\* C30: after any sequence of successful INSERT statements, dropping the
\* Pager and opening the same file with the same master key yields the
\* primary index that was in memory, not dirty, and every page the index
\* names can be read.
C30_ReopenKeepsIndex ==
    [][ (/\ result'.op = "open" /\ calls' = calls + 1
         /\ result'.key = master_key
         /\ ~index.dirty /\ DOMAIN index.map # {}) =>
            /\ index'.map = index.map
            /\ ~index'.dirty
            /\ \A k \in DOMAIN index'.map :
                  read_page(Pager', index'.map[k]).ok ]_vars

\* C31: when the server is started again on its database file it opens
\* the file with the master key the file was written with, so that the
\* documents inserted before are still in the index it loads, and a later
\* INSERT keeps the entries persisted before.
C31_RestartKeepsDatabase ==
    [][ /\ (/\ result'.op = "open" /\ calls' = calls + 1
             /\ ~index.dirty /\ DOMAIN index.map # {}) =>
              /\ master_key' = master_key
              /\ index'.map = index.map
        /\ (ExecuteStep /\ IsInsertValues(result'.sql) /\ result'.ok) =>
              \A k \in DOMAIN indexed : k \in DOMAIN index'.map ]_vars

(***************************************************************************)
(* The shape of the stored tree.                                           *)
(***************************************************************************)
InternalSplit ==
    /\ result.op = "insert" /\ result.split.done
    /\ result.split.sibling.val.node_type = "Internal"

\* C32: after every insert each child c of an Internal node n has
\* c.parent = Some(n.id), the root is the one node whose parent is None, and
\* after a split of an Internal root every child moved to the sibling has
\* the sibling as its parent.
C32_ParentPointers ==
    /\ \A n \in StoredNodes :
          n.node_type = "Internal" =>
              \A c \in SeqSet(n.children) : NodeAt(c).parent = Some(n.id)
    /\ \A n \in StoredNodes : n.parent = None <=> n.id = root_id
    /\ InternalSplit =>
          \A g \in SeqSet(result.split.sibling.val.children) :
              NodeAt(g).parent = Some(result.split.sibling.val.id)

\* C32 witness: an Internal root has been split, so that children were
\* moved to the sibling, and the tree has three levels.
C32_Witness ==
    /\ InternalSplit
    /\ result.split.sibling.val.children # <<>>
    /\ NodeAt(NodeAt(root_id).children[2]).node_type = "Internal"
    /\ NodeAt(NodeAt(NodeAt(root_id).children[2]).children[1]).parent
           = Some(result.split.sibling.val.id)

\* The depths, counted from node id, at which Leaf nodes are found.
RECURSIVE LeafDepths(_)
LeafDepths(id) ==
    LET n == NodeAt(id)
    IN  IF n.node_type = "Leaf"
        THEN {1}
        ELSE {1 + d : d \in UNION {LeafDepths(c) : c \in SeqSet(n.children)}}

\* The slots (node, position) of the Internal nodes that name child id c.
SlotsOf(c) ==
    {<<n.id, i>> : n \in {m \in StoredNodes : m.node_type = "Internal"},
                   i \in 1..NODE_CAPACITY + 1}
        \cap {s \in StoredIds \X (1..NODE_CAPACITY + 1) :
                 /\ s[2] <= Len(NodeAt(s[1]).children)
                 /\ NodeAt(s[1]).node_type = "Internal"
                 /\ NodeAt(s[1]).children[s[2]] = c}

\* The Pager after the step, and the height of the tree stored in p.
PagerNext ==
    [file |-> file', total_pages |-> total_pages',
     master_key |-> master_key', index |-> index', rng |-> rng']

RECURSIVE HeightOf(_, _)
HeightOf(p, id) ==
    LET n == read_node(p, id).val
    IN  IF n.node_type = "Leaf" THEN 1 ELSE 1 + HeightOf(p, n.children[1])

SameDepth ==
    /\ Cardinality(LeafDepths(root_id)) = 1
    /\ \A id \in StoredIds : NodeAt(id).id = id
    /\ \A id \in StoredIds :
          Cardinality(SlotsOf(id)) = IF id = root_id THEN 0 ELSE 1

\* C33: in every state all Leaf nodes are at the same depth below root_id,
\* every stored node carries the id of the page it is stored in and is the
\* child of exactly one slot (the root of none); and an insert raises the
\* height of the tree by exactly one when it finds the root full and leaves
\* it as it was otherwise.
C33_Balanced ==
    /\ []SameDepth
    /\ [][ HeightOf(PagerNext, root_id')
             = HeightOf(Pager, root_id) + (IF RootFull THEN 1 ELSE 0) ]_vars

\* C33 witness: the root has been split twice, all leaves are at depth 3.
C33_Witness ==
    /\ InternalSplit
    /\ LeafDepths(root_id) = {3}
    /\ Cardinality(StoredIds) >= 7

(***************************************************************************)
(* The descent of search and of insert, page by page.  `visited` are the   *)
(* pages read so far; a descent that comes to a page it has read before    *)
(* would go on for ever, and is cut there with leaf = FALSE.               *)
(***************************************************************************)
\* A descent that stays at the node it is at.
NextChild_self(node, idx) == node.id

\* manager.rs:40, 121  the page the descent goes to next.
NextChild(node, idx) == node.children[idx + 1]

Path(visited, current_id, leaf) ==
    [pages |-> visited \o <<current_id>>, leaf |-> leaf]

\* manager.rs:22-43  the loop of search.
RECURSIVE SearchPath(_, _, _, _)
SearchPath(p, current_id, key, visited) ==
    LET node == read_node(p, current_id)
    IN  IF current_id \in SeqSet(visited) \/ ~node.ok
        THEN Path(visited, current_id, FALSE)
        ELSE IF node.val.node_type = "Leaf"
        THEN Path(visited, current_id, TRUE)
        ELSE SearchPath(p, NextChild(node.val,
                                     PartitionPointLe(node.val.keys, key)),
                        key, visited \o <<current_id>>)

\* manager.rs:91-125  the recursion of insert_non_full; s is what
\* split_child returned when the child was full, and the node as read
\* otherwise.
RECURSIVE InsertPath(_, _, _, _, _)
InsertPathBelow(s, idx, key, visited, checks, split) ==
    IF ~s.ok
    THEN Path(visited, 0, FALSE)
    ELSE InsertPath(
             s.p,
             NextChild(s.parent,
                       IF split
                       THEN DescendAfterSplit(key, s.parent.keys[idx + 1], idx)
                       ELSE idx),
             key, visited, checks)

InsertPath(p, node_id, key, visited, checks) ==
    LET node == read_node(p, node_id)
    IN  IF node_id \in SeqSet(visited) \/ ~node.ok
        THEN Path(visited, node_id, FALSE)
        ELSE IF node.val.node_type = "Leaf"
        THEN Path(visited, node_id, TRUE)
        ELSE LET idx == PartitionPointLt(node.val.keys, key)
                 child == read_node(p, node.val.children[idx + 1])
             IN  IF ~child.ok
                 THEN Path(visited, node_id, FALSE)
                 ELSE InsertPathBelow(
                          IF is_full(child.val)
                          THEN split_child(p, node.val, idx, checks)
                          ELSE [ok |-> TRUE, p |-> p, parent |-> node.val],
                          idx, key, visited \o <<node_id>>, checks,
                          is_full(child.val))

\* manager.rs:50-87  where insert starts its descent: at the new root,
\* after the split of the old one, when the root was full.
InsertDescent(i, key, checks) ==
    IF i.split.done
    THEN InsertPath(i.split.p, i.split.new_root_id, key, <<>>, checks)
    ELSE InsertPath(Pager, root_id, key, <<>>, checks)

NoRepeat(s) == \A i, j \in 1..Len(s) : i # j => s[i] # s[j]

EndsAtLeaf(path, height) ==
    /\ path.leaf
    /\ Len(path.pages) = height
    /\ NoRepeat(path.pages)

\* The descent of the insert that returned i ends at the Leaf that holds
\* the key afterwards.
InsertAt(i, path, key, height) ==
    /\ i.ok
    /\ EndsAtLeaf(path, height)
    /\ key \in SeqSet(read_node(i.p, path.pages[Len(path.pages)]).val.keys)

InsertEnds(i, key, height) ==
    InsertAt(i, InsertDescent(i, key, overflow_checks), key, height)

\* C34: from every tree the inserts build, for every key, the descent of
\* search and the descent of insert end at a Leaf, read no page twice and
\* read as many pages as the tree is high (for insert: as high as it is
\* after the root has been split, when the root was full); the Leaf where
\* the descent of insert ends holds the key when insert has returned.
C34_DescentEnds ==
    /\ \A key \in 1..(MaxKey + 1) :
          EndsAtLeaf(SearchPath(Pager, root_id, key, <<>>), Height(root_id))
    /\ \A key \in 1..MaxKey :
          InsertEnds(insert(Pager, root_id, key, ValueFor(key),
                            overflow_checks),
                     key, Height(root_id) + (IF RootFull THEN 1 ELSE 0))

\* C34 witness: the tree has three levels and a full root, so that the
\* next insert splits on its way down, and a search reads three pages.
C34_Witness ==
    /\ Height(root_id) = 3
    /\ RootFull
    /\ Len(SearchPath(Pager, root_id, MaxKey, <<>>).pages) = 3
    /\ \E key \in 1..MaxKey :
          /\ key \notin DOMAIN inserted
          /\ Len(InsertDescent(insert(Pager, root_id, key, ValueFor(key),
                                      overflow_checks),
                               key, overflow_checks).pages) = 4

\* The entries (leaf page, position) the tree holds for key k.
EntriesOf(k) ==
    {s \in StoredIds \X (1..NODE_CAPACITY + 1) :
        /\ NodeAt(s[1]).node_type = "Leaf"
        /\ s[2] <= Len(NodeAt(s[1]).keys)
        /\ NodeAt(s[1]).keys[s[2]] = k}

\* C35: after insert(k, v1) and, later, insert(k, v2), search(k) returns
\* Some(v2) and the tree holds exactly one entry for k.
C35_ReinsertReplaces ==
    \A k \in DOMAIN inserted :
        /\ search(Pager, root_id, k) = {Ok(Some(inserted[k]))}
        /\ Cardinality(EntriesOf(k)) = 1

(***************************************************************************)
(* The primary index and the pages it names.                               *)
(***************************************************************************)
\* The index as page 0 holds it: what Pager::open loads from the file.
PersistedIndex == open(file, master_key, rng).index.map

\* Page p is a data page below total_pages that holds the document of id k.
HoldsDocument(k, p, page) ==
    /\ 1 <= p /\ p < total_pages
    /\ page.ok
    /\ doc_from_bytes(SliceOfData(page.val.data, page.val.used_space)).ok
    /\ doc_from_bytes(SliceOfData(page.val.data, page.val.used_space)).val.id = k

NoDangling(map) ==
    \A k \in DOMAIN map : HoldsDocument(k, map[k], read_page(Pager, map[k]))

\* C36: in every state reached by INSERT statements each entry (k -> p) of
\* the primary index, in memory and as page 0 holds it, has
\* 1 <= p < total_pages, and page p holds the document whose id is k.
C36_IndexNeverDangles ==
    /\ NoDangling(index.map)
    /\ NoDangling(PersistedIndex)

(***************************************************************************)
(* Runs long enough to fill page 0: the ids of PersistTexts are inserted   *)
(* until the index no longer fits, and user_007 is looked up.              *)
(***************************************************************************)
MaxFill == MaxStatements + 2

FillTexts == PersistTexts \cup {Sql(<<[kind |-> "Query", pk |-> target_id]>>)}

\* QueryEngine::new(&mut pager).execute(sql)
ExecuteFill(sql) ==
    /\ ~panicked
    /\ calls < MaxFill
    /\ \E uuid \in UuidsDrawn(sql) :
          Executed(sql, execute(Pager, sql, uuid, overflow_checks))
    /\ UNCHANGED network

NextFill == \E sql \in FillTexts : ExecuteFill(sql)

SpecFill == InitEngine /\ [][NextFill]_vars

\* C37: an INSERT that returns an error leaves the primary index in memory
\* as it was; when sync_index fails because the index no longer fits
\* page 0, the key of that INSERT is not in the index.
C37_FailedInsertLeavesIndex ==
    [][ (ExecuteStep /\ IsInsertValues(result'.sql) /\ ~result'.ok) =>
            index'.map = index.map ]_vars

\* C38: on a database that started empty, in every state reached by
\* allocate_page, write_page and sync_index, read_page(id) returns a page
\* for every id below total_pages: no read comes up short and no page is
\* reported as tampered with.
C38_AllocatedPagesReadable ==
    \A id \in 0..(total_pages - 1) : read_page(Pager, id).ok

\* C39: when the client has written the 1568 bytes of a ciphertext that
\* encapsulates to the server's public key, the read of the handshake ends
\* with the connection Authenticated, in however many pieces the transport
\* delivers the bytes.
C39_SegmentedCiphertext ==
    [][ \A t \in Tasks :
          (/\ conns[t].pc = "read_ct" /\ Steps(t)
           /\ to_server[t] # <<>>
           /\ Head(to_server[t]).len = CIPHERTEXT_BYTES
           /\ Head(to_server[t]) = Ciphertext(conns[t].server_keys, t)) =>
              conns'[t].state = "Authenticated" ]_vars

(***************************************************************************)
(* Texts of several statements, separated by ';': Parser::parse_sql        *)
(* returns all of them (executor.rs:22).                                   *)
(***************************************************************************)
InsertOf(k) ==
    InsertStatement(<<"id", "name">>,
                    Values(<<SingleQuotedString(k), SingleQuotedString(2)>>))
SelectOf(k) == [kind |-> "Query", pk |-> k]

\* INSERT ...; INSERT ...   INSERT ...; SELECT ...   SELECT ...; INSERT ...
\* UPDATE ...; INSERT ...   and an INSERT without id; INSERT ...
SeveralStatements ==
    {Sql(<<InsertOf(target_id), InsertOf(1)>>),
     Sql(<<InsertOf(1), InsertOf(target_id)>>),
     Sql(<<InsertOf(1), SelectOf(target_id)>>),
     Sql(<<SelectOf(target_id), InsertOf(target_id)>>),
     Sql(<<[kind |-> "Update"], InsertOf(target_id)>>),
     Sql(<<InsertStatement(<<"name">>, Values(<<SingleQuotedString(2)>>)),
           InsertOf(1)>>)}

OneStatement ==
    {Sql(<<InsertOf(1)>>), Sql(<<InsertOf(target_id)>>),
     Sql(<<SelectOf(target_id)>>)}

NextStatements ==
    \/ \E sql \in SeveralStatements : Execute(sql)
    \/ \E sql \in OneStatement : Execute(sql)

SpecStatements == InitEngine /\ [][NextStatements]_vars

\* What execute leaves and returns is what r, the execute of the first
\* statement alone, leaves and returns.
AsFirstAlone(r) ==
    /\ PagerNext = r.p
    /\ result'.ok = r.ok
    /\ result'.out = r.out
    /\ result'.response = response(r)
    /\ result'.alloc = r.alloc

\* C40: when the text parses into several statements, execute applies the
\* first and no other: the pager it leaves and the one result it returns
\* are those of the first statement executed alone, at most one document
\* is added to the index, and the statements after the first add no error.
C40_FirstStatementOnly ==
    [][ (ExecuteStep /\ result'.sql.parsed /\ Len(result'.sql.ast) > 1) =>
            /\ \E uuid \in UuidsDrawn(Sql(<<result'.sql.ast[1]>>)) :
                  AsFirstAlone(execute(Pager, Sql(<<result'.sql.ast[1]>>),
                                       uuid, overflow_checks))
            /\ Cardinality(DOMAIN index'.map \ DOMAIN index.map) <= 1
            /\ result'.sql.ast[1].kind # "Insert" => index' = index ]_vars

\* C40 witness: execute of two INSERTs has returned Ok, and the index
\* holds the id of the first and not the id of the second.
C40_Witness ==
    /\ result.op = "execute" /\ result.ok
    /\ result.sql = Sql(<<InsertOf(target_id), InsertOf(1)>>)
    /\ DOMAIN index.map = {target_id}
    /\ total_pages = 2

=============================================================================
